---- MODULE Spec2Model ----
(***************************************************************************)
(* JALE: the batch loop of ale.py (run_ale and its runners) together with  *)
(* main_effect and probabilistic_ale of core/analyses/main_effect.py,      *)
(* over a file system of result files.                                     *)
(*                                                                         *)
(* A file path is the sequence of its components; the file name is split   *)
(* into the pieces of the f-string that builds it.  A type code of the     *)
(* analysis table is the sequence of its characters; an empty cell (NaN,   *)
(* not a string) is the empty sequence.  target_n is <<>> for None and     *)
(* <<n>> for the integer n.  Thresholds are kept multiplied by 20, which   *)
(* makes the 95th percentile (linear interpolation) exact in integers.     *)
(***************************************************************************)
EXTENDS Integers, Sequences, FiniteSets, TLC

VARIABLES
    analysis_df,  \* the rows of the analysis table read and not yet passed:
                  \* the row at row_idx and, for a contrast, the one after it
                  \* (the table is revealed row by row, and so is its end)
    row_idx,      \* run_ale's loop variable (0-based, as in the code)
    params,       \* config["parameters"]
    fs,           \* the project directory: path -> [complete, data]
    status,       \* "running", "done", "failed" (uncaught exception), "crashed"
    error,        \* the exception that ended the process, "" if none
    pc,           \* position of the process
    caller,       \* the runner that called main_effect / probabilistic_ale
    meta,         \* meta_name of the running analysis
    target_n,     \* target_n of the running analysis
    meta_names,   \* setup_contrast_data's meta_names
    rc_idx,       \* loop index over meta_names in the contrast runners
    nulls,        \* (vfwe_null, cfwe_null, tfce_null) of the running analysis
    thresholds,   \* (vfwe_treshold, cfwe_threshold, tfce_threshold) * 20
    loaded,       \* the names of the files the running analysis loaded
    mc_next,      \* next Monte Carlo iteration joblib will dispatch (1-based)
    mc_running,   \* iterations in flight on a worker
    mc_res,       \* results returned so far: iteration -> result tuple
    mc_order,     \* the order in which the workers finished
    rme_done,     \* history: names for which run_main_effect ran to its end
    pa_done,      \* history: <<name, target_n>> for which probabilistic_ale returned
    stored,       \* history: name -> Monte Carlo null last dumped by main_effect
    rowlog,       \* history: calls and log lines of the row being processed
    restarted,    \* history: run_ale was started again after a crash
    mc_raised,    \* history: a Monte Carlo iteration of this process raised
    pools,        \* contrast data: the two exp_idxs lists of compile_experiments
    exp_dfs,      \* contrast data: the two experiment tables
    cpc,          \* contrast data: position in run_contrast_analysis
    fn,           \* a function taken alone: its position ("call", "returned",
                  \* "exited" after sys.exit)
    args,         \* a function taken alone: its arguments
    result,       \* a function taken alone: its return value
    stdout        \* a function taken alone: the lines it has printed

vars == <<analysis_df, row_idx, params, fs, status, error, pc, caller,
          meta, target_n, meta_names, rc_idx, nulls, thresholds, loaded,
          mc_next, mc_running, mc_res, mc_order,
          rme_done, pa_done, stored, rowlog, restarted, mc_raised,
          pools, exp_dfs, cpc, fn, args, result, stdout>>

orchVars == <<analysis_df, row_idx, params>>
callVars == <<caller, meta, target_n, meta_names, rc_idx>>
localVars == <<nulls, thresholds, loaded>>
mcVars == <<mc_next, mc_running, mc_res, mc_order>>
histVars == <<rme_done, pa_done, stored, rowlog, restarted, mc_raised>>
contrastVars == <<pools, exp_dfs, cpc>>
fnVars == <<fn, args, result, stdout>>

(***************************************************************************)
(* Bounds and inputs                                                       *)
(***************************************************************************)
MaxRows == 2
MonteCarloIterations == 2
NProcesses == 2
Names == {"a", "b"}
NullSamples == {1, 2}
TypeCodes == {<<"M">>, <<"P">>, <<"P", "2">>, <<"C">>, <<"B", "2">>, <<>>}
Rows == [code : TypeCodes, name : Names]
NoneT == <<>>

(***************************************************************************)
(* Files                                                                   *)
(***************************************************************************)
Exists(f, p) == p \in DOMAIN f
WriteFile(f, p, c) == [q \in (DOMAIN f) \cup {p} |-> IF q = p THEN c ELSE f[q]]
Complete(d) == [complete |-> TRUE, data |-> d]
Partial == [complete |-> FALSE, data |-> <<>>]

\* pathlib's "/" : an absolute right operand replaces the left one
Join(base, rel) == IF rel # <<>> /\ rel[1] = "/" THEN rel ELSE base \o rel

\* f"{target_n}" in a file name
Fmt(tn) == IF tn = NoneT THEN "None" ELSE ToString(tn[1])

ProjectPath == <<"project">>

\* ale.py
MainResultPath(m) ==
    Join(ProjectPath, <<"Results", "MainEffect", "Volumes", m, "_cFWE.nii">>)
ProbResultPath(m, tn) ==
    Join(ProjectPath, <<"Results", "Probabilistic", "Volumes", m, "_sub_ale_", Fmt(tn), ".nii">>)
BalancedResultPath(m, tn) ==
    Join(ProjectPath, <<"Results", "MainEffect", "Volumes", m, "_sub_ale_", Fmt(tn), ".nii">>)

\* main_effect
MainEffectPath == Join(ProjectPath, <<"Results", "MainEffect">>)
KernelsPath(m) == Join(MainEffectPath, <<m, "_kernels", ".npy">>)
IncludedPath(m) == Join(MainEffectPath, <<m, "_included_experiments.csv">>)
MaPath(m) == Join(MainEffectPath, <<m, "_ma", ".npz">>)
FociCheckPath(m) == Join(MainEffectPath, <<"/", "Full", "Volumes", "Foci", m, ".nii">>)
FociPath(m) == Join(MainEffectPath, <<"Full", "Volumes", m, "_foci.nii">>)
HistCheckPath(m) == Join(MainEffectPath, <<"Full", "NullDistributions", m, ".pickle">>)
AleLoadPath(m) == Join(MainEffectPath, <<"/", "Full", "Volumes", m, "_ale.nii">>)
HistLoadPath(m) == Join(MainEffectPath, <<"/", "Full", "NullDistributions", m, ".pickle">>)
AlePath(m) == Join(MainEffectPath, <<"Full", "Volumes", m, "_ale.nii">>)
HistPath(m) == Join(MainEffectPath, <<"Full", "NullDistributions", m, "_histogram.pickle">>)
ZPath(m) == Join(MainEffectPath, <<"Full", "Volumes", m, "_z.nii">>)
TfcePath(m) == Join(MainEffectPath, <<"Full", "Volumes", m, "_tfce_uncorrected.nii">>)
MonteCarloPath(m) ==
    Join(MainEffectPath, <<"Full", "NullDistributions", m, "_montecarlo.pickle">>)
InferenceCheckPath(m) == Join(MainEffectPath, <<"Full", "Volumes", m, "_vfwe.nii">>)
VfwePath(m) == Join(MainEffectPath, <<"Full", "Volumes", m, "_vFWE05.nii">>)
CfwePath(m) == Join(MainEffectPath, <<"Full", "Volumes", m, "_cFWE05.nii">>)
Tfce05Path(m) == Join(MainEffectPath, <<"Full", "Volumes", m, "_TFCE05.nii">>)

\* probabilistic_ale
CVPath == Join(ProjectPath, <<"Results", "MainEffect", "CV">>)
CVKernelsPath(m) == Join(CVPath, <<m, "_kernels", ".npy">>)
CVIncludedPath(m) == Join(CVPath, <<m, "_included_experiments.csv">>)
CVMaPath(m) == Join(CVPath, <<m, "_ma", ".npz">>)
CVNullCheckPath(m, tn) ==
    Join(CVPath, <<"CV", "NullDistributions", m, "_montecarlo_", Fmt(tn), ".pickle">>)
CVNullPath(m, tn) ==
    Join(CVPath, <<"NullDistributions", m, "_montecarlo_", Fmt(tn), ".pickle">>)
SubAlePath(m, tn) == Join(CVPath, <<"Volumes", m, "_sub_ale_", Fmt(tn), ".nii">>)

\* plot_and_save(arr, nii_path=p): the volume is on disk when the call returns
plot_and_save(f, p, arr) == WriteFile(f, p, Complete(arr))

(***************************************************************************)
(* Type codes                                                              *)
(***************************************************************************)
IsStr(code) == code # <<>>

DigitVal(ch) ==
    CASE ch = "0" -> 0 [] ch = "1" -> 1 [] ch = "2" -> 2 [] ch = "3" -> 3
      [] ch = "4" -> 4 [] ch = "5" -> 5 [] ch = "6" -> 6 [] ch = "7" -> 7
      [] ch = "8" -> 8 [] ch = "9" -> 9 [] OTHER -> -1

RECURSIVE IntOf(_)
\* int(s) for a string of decimal digits
IntOf(s) == IF s = <<>> THEN 0
            ELSE 10 * IntOf(SubSeq(s, 1, Len(s) - 1)) + DigitVal(s[Len(s)])

\* ale.py 113-117
ParseTargetN(code) == IF Len(code) > 1 THEN <<IntOf(Tail(code))>> ELSE NoneT

\* `if target_n:` : None and 0 are falsy
Truthy(tn) == tn # NoneT /\ tn[1] # 0

Min2(a, b) == IF a <= b THEN a ELSE b

\* ale.py 328-331
determine_target_n(code, n1, n2) ==
    IF Len(code) > 1 THEN IntOf(Tail(code))
    ELSE Min2((Min2(n1, n2) + 17) \div 2, Min2(n1, n2) - 2)

(***************************************************************************)
(* Monte Carlo null and thresholds                                         *)
(***************************************************************************)
\* one iteration's result for the random draw s:
\* (max voxel value, max cluster mass, max TFCE value)
compute_monte_carlo_null(s, tfce_enabled) ==
    <<s, 3 - s, IF tfce_enabled THEN 2 * s ELSE 0>>

\* zip(*results): one vector per component, in the order of the iterations
Zip(res, n) == <<[i \in 1..n |-> res[i][1]],
                 [i \in 1..n |-> res[i][2]],
                 [i \in 1..n |-> res[i][3]]>>

\* 20 * np.percentile(v, 95), linear interpolation between order statistics
Percentile95(v) ==
    LET s == SortSeq(v, <)
        k == 19 * (Len(v) - 1)
        lo == k \div 20
        r == k % 20
    IN  IF r = 0 THEN 20 * s[lo + 1]
        ELSE 20 * s[lo + 1] + r * (s[lo + 2] - s[lo + 1])

\* the keyword parameters of main_effect (main_effect.py 30-40)
MainEffectKeywords == {"tfce_enabled", "cutoff_predict_enabled", "bin_steps",
                       "cluster_forming_threshold", "monte_carlo_iterations",
                       "nprocesses"}
MainEffectAccepts(kw) == kw \subseteq MainEffectKeywords

\* len(exp_dfs[i]) of the pools of a balanced contrast
PoolSizes == {3, 4}

\* predict_cutoff(exp_df): thresholds without a simulation
predict_cutoff == <<20, 40, 20>>

(***************************************************************************)
(* Initial state: run_ale has loaded the configuration and the tables.     *)
(* The project directory may already hold result volumes of earlier work   *)
(* at the places the runners of ale.py look for them.                      *)
(***************************************************************************)
EmptyFS == [p \in {} |-> Partial]

RECURSIVE WriteAll(_, _)
WriteAll(f, ps) ==
    IF ps = {} THEN f
    ELSE LET p == CHOOSE q \in ps : TRUE
         IN  WriteAll(WriteFile(f, p, Complete(<<>>)), ps \ {p})

InitialFiles(present) ==
    WriteAll(EmptyFS, {MainResultPath(m) : m \in present}
                      \cup {ProbResultPath(m, tn) : m \in present, tn \in {NoneT, <<2>>}}
                      \cup {BalancedResultPath(m, <<2>>) : m \in present})

NoCall ==
    /\ caller = ""
    /\ meta = ""
    /\ target_n = NoneT
    /\ meta_names = <<>>
    /\ rc_idx = 0

NoLocals ==
    /\ nulls = <<>>
    /\ thresholds = <<>>
    /\ loaded = {}

NoBatch ==
    /\ mc_next = 1
    /\ mc_running = {}
    /\ mc_res = <<>>
    /\ mc_order = <<>>

NoContrastData ==
    /\ pools = <<>>
    /\ exp_dfs = <<>>
    /\ cpc = "idle"

NoFunction ==
    /\ fn = ""
    /\ args = <<>>
    /\ result = <<>>
    /\ stdout = <<>>

Init ==
    /\ analysis_df = <<>>
    /\ row_idx = 0
    /\ params \in [cutoff_predict_enabled : BOOLEAN, tfce_enabled : BOOLEAN]
    /\ \E present \in SUBSET Names : fs = InitialFiles(present)
    /\ status = "running"
    /\ error = ""
    /\ pc = "loop"
    /\ NoCall
    /\ NoLocals
    /\ NoBatch
    /\ rme_done = {}
    /\ pa_done = {}
    /\ stored = EmptyFS
    /\ rowlog = <<>>
    /\ restarted = FALSE
    /\ mc_raised = FALSE
    /\ NoContrastData
    /\ NoFunction

(***************************************************************************)
(* Building blocks of the actions                                          *)
(***************************************************************************)
Running == status = "running"

\* the table has a row at index i: a row that was read is there, and the
\* table has between 1 and MaxRows rows
HasRow(i) == i < row_idx + Len(analysis_df)
MayHaveRow(i) == i < MaxRows
MayEndAt(i) == i >= 1 /\ ~HasRow(i)

\* row r is the row at row_idx: a row read before keeps its value
Known(r) == analysis_df # <<>> => r = analysis_df[1]
Revealed(r) == IF analysis_df # <<>> THEN analysis_df ELSE <<r>>

\* the row run_ale has dispatched, first entry of its log
RowEntry(r) == <<"row", r.code, r.name>>

\* the next iteration of run_ale's loop, df being the rows read
NextRow(df) ==
    /\ row_idx' = row_idx + 1
    /\ analysis_df' = Tail(df)
    /\ pc' = "loop"
    /\ UNCHANGED <<status, error>>

\* the locals of a frame that has returned are gone
Leave ==
    /\ nulls' = <<>>
    /\ thresholds' = <<>>
    /\ loaded' = {}
    /\ mc_next' = 1
    /\ mc_running' = {}
    /\ mc_res' = <<>>
    /\ mc_order' = <<>>

\* an uncaught exception unwinds every frame and ends the process
Raise(e) ==
    /\ status' = "failed"
    /\ error' = e
    /\ Leave
    /\ UNCHANGED pc

\* a fresh frame for main_effect / probabilistic_ale
Enter(label, who, m, tn) ==
    /\ pc' = label
    /\ caller' = who
    /\ meta' = m
    /\ target_n' = tn
    /\ nulls' = <<>>
    /\ thresholds' = <<>>
    /\ loaded' = {}
    /\ mc_next' = 1
    /\ mc_running' = {}
    /\ mc_res' = <<>>
    /\ mc_order' = <<>>
    /\ UNCHANGED <<status, error>>

(***************************************************************************)
(* run_ale: the loop over the rows of the analysis table                   *)
(***************************************************************************)
\* ale.py 375-376: a type code that is not a string
LoopSkip ==
    /\ Running /\ pc = "loop" /\ MayHaveRow(row_idx)
    /\ \E r \in Rows :
        /\ Known(r)
        /\ ~IsStr(r.code)
        /\ rowlog' = <<RowEntry(r)>>
        /\ NextRow(Revealed(r))
    /\ UNCHANGED <<params, fs, callVars, localVars, mcVars,
                   rme_done, pa_done, stored, restarted, mc_raised, contrastVars, fnVars>>

\* ale.py 399: the loop is over
LoopEnd ==
    /\ Running /\ pc = "loop" /\ MayEndAt(row_idx)
    /\ status' = "done"
    /\ UNCHANGED <<orchVars, fs, error, pc, callVars, localVars, mcVars,
                   histVars, contrastVars, fnVars>>

\* ale.py 378-381 and run_main_effect up to the call of main_effect
DispatchMainEffect ==
    /\ Running /\ pc = "loop" /\ MayHaveRow(row_idx)
    /\ \E r \in Rows :
        /\ Known(r)
        /\ IsStr(r.code) /\ r.code = <<"M">>
        /\ IF Exists(fs, MainResultPath(r.name))
           THEN /\ rowlog' = <<RowEntry(r), <<"info_exists", r.name>>>>
                /\ NextRow(Revealed(r))
                /\ UNCHANGED <<callVars, localVars, mcVars>>
           ELSE /\ rowlog' = <<RowEntry(r), <<"main_effect", r.name>>>>
                /\ analysis_df' = Revealed(r)
                /\ Enter("me_prepare", "run_main_effect", r.name, NoneT)
                /\ UNCHANGED <<row_idx, meta_names, rc_idx>>
    /\ UNCHANGED <<params, fs, rme_done, pa_done, stored, restarted, mc_raised,
                   contrastVars, fnVars>>

\* run_main_effect after main_effect has returned (ale.py 68-79)
RunMainEffectAfter ==
    /\ Running /\ pc = "rme_after"
    /\ \E masks \in BOOLEAN :
        rowlog' = rowlog \o <<<<"contribution", meta>>>>
                         \o (IF masks THEN <<<<"roi_ale", meta>>>> ELSE <<>>)
    /\ rme_done' = rme_done \cup {meta}
    /\ NextRow(analysis_df)
    /\ UNCHANGED <<params, fs, callVars, localVars, mcVars,
                   pa_done, stored, restarted, mc_raised, contrastVars, fnVars>>

\* DispatchProbabilistic with the missing subsampling size raised as an error
DispatchProbabilistic_Fatal ==
    /\ Running /\ pc = "loop" /\ MayHaveRow(row_idx)
    /\ \E r \in Rows :
        /\ Known(r)
        /\ IsStr(r.code) /\ r.code # <<"M">> /\ Head(r.code) = "P"
        /\ LET tn == ParseTargetN(r.code) IN
           IF Exists(fs, ProbResultPath(r.name, tn))
           THEN /\ rowlog' = <<RowEntry(r), <<"info_exists", r.name>>>>
                /\ NextRow(Revealed(r))
                /\ UNCHANGED <<callVars, localVars, mcVars>>
           ELSE IF Truthy(tn)
           THEN /\ rowlog' = <<RowEntry(r), <<"probabilistic_ale", r.name>>>>
                /\ analysis_df' = Revealed(r)
                /\ Enter("pa_prepare", "run_probabilistic_ale", r.name, tn)
                /\ UNCHANGED <<row_idx, meta_names, rc_idx>>
           ELSE /\ rowlog' = <<RowEntry(r), <<"warning_need_n", r.name>>>>
                /\ analysis_df' = Revealed(r)
                /\ Raise("ValueError")
                /\ UNCHANGED <<row_idx, callVars>>
    /\ UNCHANGED <<params, fs, rme_done, pa_done, stored, restarted, mc_raised,
                   contrastVars, fnVars>>

\* ale.py 382-385 and run_probabilistic_ale up to the call of probabilistic_ale
DispatchProbabilistic ==
    /\ Running /\ pc = "loop" /\ MayHaveRow(row_idx)
    /\ \E r \in Rows :
        /\ Known(r)
        /\ IsStr(r.code) /\ r.code # <<"M">> /\ Head(r.code) = "P"
        /\ LET tn == ParseTargetN(r.code) IN
           IF Exists(fs, ProbResultPath(r.name, tn))
           THEN /\ rowlog' = <<RowEntry(r), <<"info_exists", r.name>>>>
                /\ NextRow(Revealed(r))
                /\ UNCHANGED <<callVars, localVars, mcVars>>
           ELSE IF Truthy(tn)
           THEN /\ rowlog' = <<RowEntry(r), <<"probabilistic_ale", r.name>>>>
                /\ analysis_df' = Revealed(r)
                /\ Enter("pa_prepare", "run_probabilistic_ale", r.name, tn)
                /\ UNCHANGED <<row_idx, meta_names, rc_idx>>
           ELSE /\ rowlog' = <<RowEntry(r), <<"warning_need_n", r.name>>>>
                /\ NextRow(Revealed(r))
                /\ UNCHANGED <<callVars, localVars, mcVars>>
    /\ UNCHANGED <<params, fs, rme_done, pa_done, stored, restarted, mc_raised,
                   contrastVars, fnVars>>

\* setup_contrast_data reads the row after row_idx (ale.py 297-309)
SetupContrastData(r, who, tn) ==
    \/ /\ MayEndAt(row_idx + 1)
       /\ Raise("IndexError")
       /\ analysis_df' = Revealed(r)
       /\ rowlog' = <<RowEntry(r)>>
       /\ UNCHANGED <<row_idx, callVars>>
    \/ \E r2 \in Rows :
         /\ MayHaveRow(row_idx + 1)
         /\ analysis_df' = <<r, r2>>
         /\ meta_names' = <<r.name, r2.name>>
         /\ rc_idx' = 0
         /\ caller' = who
         /\ target_n' = tn
         /\ pc' = IF who = "run_contrast_analysis" THEN "rc_check" ELSE "rb_check"
         /\ rowlog' = <<RowEntry(r)>>
         /\ UNCHANGED <<row_idx, status, error, meta, localVars, mcVars>>

\* ale.py 386-389 and run_contrast_analysis line 174
DispatchContrast ==
    /\ Running /\ pc = "loop" /\ MayHaveRow(row_idx)
    /\ \E r \in Rows :
        /\ Known(r)
        /\ IsStr(r.code) /\ r.code # <<"M">> /\ Head(r.code) # "P"
        /\ r.code = <<"C">>
        /\ SetupContrastData(r, "run_contrast_analysis", NoneT)
    /\ UNCHANGED <<params, fs, rme_done, pa_done, stored, restarted, mc_raised,
                   contrastVars, fnVars>>

\* ContrastPrerequisite without the look at the result file
ContrastPrerequisite_Always ==
    /\ Running /\ pc = "rc_check" /\ rc_idx < 2
    /\ rowlog' = rowlog \o <<<<"main_effect", meta_names[rc_idx + 1]>>>>
    /\ Enter("me_prepare", caller, meta_names[rc_idx + 1], NoneT)
    /\ UNCHANGED <<orchVars, fs, meta_names, rc_idx, rme_done, pa_done, stored,
                   restarted, mc_raised, contrastVars, fnVars>>

\* run_contrast_analysis 176-193: the prerequisite main effect is missing
ContrastPrerequisite ==
    /\ Running /\ pc = "rc_check" /\ rc_idx < 2
    /\ ~Exists(fs, MainResultPath(meta_names[rc_idx + 1]))
    /\ rowlog' = rowlog \o <<<<"main_effect", meta_names[rc_idx + 1]>>>>
    /\ Enter("me_prepare", caller, meta_names[rc_idx + 1], NoneT)
    /\ UNCHANGED <<orchVars, fs, meta_names, rc_idx, rme_done, pa_done, stored,
                   restarted, mc_raised, contrastVars, fnVars>>

\* run_contrast_analysis 176-178: the main effect result exists
ContrastSkip ==
    /\ Running /\ pc = "rc_check" /\ rc_idx < 2
    /\ Exists(fs, MainResultPath(meta_names[rc_idx + 1]))
    /\ rc_idx' = rc_idx + 1
    /\ UNCHANGED <<orchVars, fs, status, error, pc, caller, meta, target_n,
                   meta_names, localVars, mcVars, histVars, contrastVars, fnVars>>

\* run_contrast_analysis 194-196, after main_effect has returned
ContrastContribution ==
    /\ Running /\ pc = "rc_contrib"
    /\ rowlog' = rowlog \o <<<<"contribution", meta>>>>
    /\ rc_idx' = rc_idx + 1
    /\ pc' = "rc_check"
    /\ UNCHANGED <<orchVars, fs, status, error, caller, meta, target_n,
                   meta_names, localVars, mcVars, rme_done, pa_done, stored,
                   restarted, mc_raised, contrastVars, fnVars>>

\* run_contrast_analysis 198-207
ContrastCall ==
    /\ Running /\ pc = "rc_check" /\ rc_idx = 2
    /\ rowlog' = rowlog \o <<<<"contrast", meta_names[1], meta_names[2]>>>>
    /\ NextRow(analysis_df)
    /\ UNCHANGED <<params, fs, callVars, localVars, mcVars,
                   rme_done, pa_done, stored, restarted, mc_raised, contrastVars, fnVars>>

\* ale.py 390-393 and run_balanced_contrast 237-238
DispatchBalanced ==
    /\ Running /\ pc = "loop" /\ MayHaveRow(row_idx)
    /\ \E r \in Rows, n1 \in PoolSizes, n2 \in PoolSizes :
        /\ Known(r)
        /\ IsStr(r.code) /\ r.code # <<"M">> /\ Head(r.code) # "P"
        /\ r.code # <<"C">> /\ Head(r.code) = "B"
        /\ SetupContrastData(r, "run_balanced_contrast",
                             <<determine_target_n(r.code, n1, n2)>>)
    /\ UNCHANGED <<params, fs, rme_done, pa_done, stored, restarted, mc_raised,
                   contrastVars, fnVars>>

\* run_balanced_contrast 241-259: main_effect is called with target_n and
\* sample_n, which its signature (main_effect.py 30-40) does not have
BalancedPrerequisite ==
    /\ Running /\ pc = "rb_check" /\ rc_idx < 2
    /\ ~Exists(fs, BalancedResultPath(meta_names[rc_idx + 1], target_n))
    /\ rowlog' = rowlog \o <<<<"main_effect", meta_names[rc_idx + 1]>>>>
    /\ IF MainEffectAccepts({"target_n", "monte_carlo_iterations", "sample_n",
                             "nprocesses"})
       THEN Enter("me_prepare", caller, meta_names[rc_idx + 1], target_n)
       ELSE /\ Raise("TypeError")
            /\ UNCHANGED <<caller, meta, target_n>>
    /\ UNCHANGED <<orchVars, fs, meta_names, rc_idx, rme_done, pa_done, stored,
                   restarted, mc_raised, contrastVars, fnVars>>

\* run_balanced_contrast 241-246: the subsampled result exists
BalancedSkip ==
    /\ Running /\ pc = "rb_check" /\ rc_idx < 2
    /\ Exists(fs, BalancedResultPath(meta_names[rc_idx + 1], target_n))
    /\ rc_idx' = rc_idx + 1
    /\ UNCHANGED <<orchVars, fs, status, error, pc, caller, meta, target_n,
                   meta_names, localVars, mcVars, histVars, contrastVars, fnVars>>

\* run_balanced_contrast 261-269
BalancedContrastCall ==
    /\ Running /\ pc = "rb_check" /\ rc_idx = 2
    /\ rowlog' = rowlog \o <<<<"balanced_contrast", meta_names[1], meta_names[2]>>>>
    /\ NextRow(analysis_df)
    /\ UNCHANGED <<params, fs, callVars, localVars, mcVars,
                   rme_done, pa_done, stored, restarted, mc_raised, contrastVars, fnVars>>

(***************************************************************************)
(* main_effect (main_effect.py 30-251)                                     *)
(***************************************************************************)
\* 84-120: kernels, included experiments, MA volumes, foci illustration
ME_Prepare ==
    /\ Running /\ pc = "me_prepare"
    /\ LET f1 == WriteFile(fs, KernelsPath(meta), Complete(<<>>))
           f2 == WriteFile(f1, IncludedPath(meta), Complete(<<>>))
           f3 == WriteFile(f2, MaPath(meta), Complete(<<>>))
       IN  fs' = IF ~Exists(f3, FociCheckPath(meta))
                 THEN plot_and_save(f3, FociPath(meta), <<>>)
                 ELSE f3
    /\ pc' = "me_ale"
    /\ UNCHANGED <<orchVars, status, error, callVars, localVars, mcVars,
                   histVars, contrastVars, fnVars>>

\* 122-147: ALE volume and histogram null, up to the open() of the pickle
ME_Ale ==
    /\ Running /\ pc = "me_ale"
    /\ IF Exists(fs, HistCheckPath(meta))
       THEN IF Exists(fs, AleLoadPath(meta)) /\ Exists(fs, HistLoadPath(meta))
            THEN /\ loaded' = loaded \cup {"ale", "histogram"}
                 /\ pc' = "me_z"
                 /\ UNCHANGED <<fs, status, error, nulls, thresholds, mcVars>>
            ELSE /\ Raise("FileNotFoundError")
                 /\ UNCHANGED fs
       ELSE /\ fs' = WriteFile(plot_and_save(fs, AlePath(meta), <<>>),
                               HistPath(meta), Partial)
            /\ pc' = "me_hist_dump"
            /\ UNCHANGED <<status, error, localVars, mcVars>>
    /\ UNCHANGED <<orchVars, callVars, histVars, contrastVars, fnVars>>

\* 148: pickle.dump of the histogram null, and the file is closed
ME_HistDump ==
    /\ Running /\ pc = "me_hist_dump"
    /\ fs' = WriteFile(fs, HistPath(meta), Complete(<<>>))
    /\ pc' = "me_z"
    /\ UNCHANGED <<orchVars, status, error, callVars, localVars, mcVars,
                   histVars, contrastVars, fnVars>>

\* 150-174: z map and uncorrected TFCE map
ME_Z ==
    /\ Running /\ pc = "me_z"
    /\ LET fz == IF Exists(fs, ZPath(meta)) THEN fs
                 ELSE plot_and_save(fs, ZPath(meta), <<>>)
           lz == IF Exists(fs, ZPath(meta)) THEN {"z"} ELSE {}
           ft == IF params.tfce_enabled /\ ~Exists(fz, TfcePath(meta))
                 THEN plot_and_save(fz, TfcePath(meta), <<>>)
                 ELSE fz
           lt == IF params.tfce_enabled /\ Exists(fz, TfcePath(meta))
                 THEN {"tfce"} ELSE {}
       IN  /\ fs' = ft
           /\ loaded' = loaded \cup lz \cup lt
    /\ pc' = "me_thresh"
    /\ UNCHANGED <<orchVars, status, error, callVars, nulls, thresholds,
                   mcVars, histVars, contrastVars, fnVars>>

\* ME_PredictCutoff with the prediction not taking the simulation's place
ME_PredictCutoff_ThenSimulate ==
    /\ Running /\ pc = "me_thresh"
    /\ params.cutoff_predict_enabled
    /\ thresholds' = predict_cutoff
    /\ pc' = IF Exists(fs, MonteCarloPath(meta)) THEN "me_infer" ELSE "me_mc"
    /\ UNCHANGED <<orchVars, fs, status, error, callVars, nulls, loaded,
                   mcVars, histVars, contrastVars, fnVars>>

\* 177-179: thresholds from the prediction strategy
ME_PredictCutoff ==
    /\ Running /\ pc = "me_thresh"
    /\ params.cutoff_predict_enabled
    /\ thresholds' = predict_cutoff
    /\ pc' = "me_infer"
    /\ UNCHANGED <<orchVars, fs, status, error, callVars, nulls, loaded,
                   mcVars, histVars, contrastVars, fnVars>>

\* ME_LoadNull with the pickled tuple unpacked in another order
ME_LoadNull_Swapped ==
    /\ Running /\ pc = "me_thresh"
    /\ ~params.cutoff_predict_enabled
    /\ Exists(fs, MonteCarloPath(meta))
    /\ IF fs[MonteCarloPath(meta)].complete
       THEN /\ nulls' = <<fs[MonteCarloPath(meta)].data[2],
                          fs[MonteCarloPath(meta)].data[1],
                          fs[MonteCarloPath(meta)].data[3]>>
            /\ loaded' = loaded \cup {"montecarlo"}
            /\ pc' = "me_pct"
            /\ UNCHANGED <<status, error, thresholds, mcVars>>
       ELSE Raise("EOFError")
    /\ UNCHANGED <<orchVars, fs, callVars, histVars, contrastVars, fnVars>>

\* 181-189: the Monte Carlo null is on disk and is loaded
ME_LoadNull ==
    /\ Running /\ pc = "me_thresh"
    /\ ~params.cutoff_predict_enabled
    /\ Exists(fs, MonteCarloPath(meta))
    /\ IF fs[MonteCarloPath(meta)].complete
       THEN /\ nulls' = fs[MonteCarloPath(meta)].data
            /\ loaded' = loaded \cup {"montecarlo"}
            /\ pc' = "me_pct"
            /\ UNCHANGED <<status, error, thresholds, mcVars>>
       ELSE Raise("EOFError")
    /\ UNCHANGED <<orchVars, fs, callVars, histVars, contrastVars, fnVars>>

\* ME_SimulateNull without the look at the disk: the simulation always starts
ME_SimulateNull_NoCheck ==
    /\ Running /\ pc = "me_thresh"
    /\ ~params.cutoff_predict_enabled
    /\ pc' = "me_mc"
    /\ UNCHANGED <<orchVars, fs, status, error, callVars, localVars, mcVars,
                   histVars, contrastVars, fnVars>>

\* 190-193: no Monte Carlo null on disk, the simulation starts
ME_SimulateNull ==
    /\ Running /\ pc = "me_thresh"
    /\ ~params.cutoff_predict_enabled
    /\ ~Exists(fs, MonteCarloPath(meta))
    /\ pc' = "me_mc"
    /\ UNCHANGED <<orchVars, fs, status, error, callVars, localVars, mcVars,
                   histVars, contrastVars, fnVars>>

(***************************************************************************)
(* joblib.Parallel(n_jobs=nprocesses)(delayed(compute_monte_carlo_null)... *)
(* for i in range(monte_carlo_iterations))  (193-205 and 314-327)          *)
(***************************************************************************)
InBatch == pc \in {"me_mc", "pa_mc"}

\* a free worker takes the next iteration
MC_Dispatch ==
    /\ Running /\ InBatch
    /\ mc_next <= MonteCarloIterations
    /\ Cardinality(mc_running) < NProcesses
    /\ mc_running' = mc_running \cup {mc_next}
    /\ mc_next' = mc_next + 1
    /\ UNCHANGED <<orchVars, fs, status, error, pc, callVars, localVars,
                   mc_res, mc_order, histVars, contrastVars, fnVars>>

\* an iteration returns its result tuple
MC_Finish ==
    /\ Running /\ InBatch
    /\ \E i \in mc_running, s \in NullSamples :
        /\ mc_running' = mc_running \ {i}
        /\ mc_res' = WriteFile(mc_res, i,
                        compute_monte_carlo_null(s, pc = "me_mc" /\ params.tfce_enabled))
        /\ mc_order' = Append(mc_order, i)
    /\ UNCHANGED <<orchVars, fs, status, error, pc, callVars, localVars,
                   mc_next, histVars, contrastVars, fnVars>>

\* MC_Raise with the exception swallowed: the iteration is dropped
MC_Raise_Dropped ==
    /\ Running /\ InBatch
    /\ \E i \in mc_running : mc_running' = mc_running \ {i}
    /\ mc_raised' = TRUE
    /\ UNCHANGED <<orchVars, fs, status, error, pc, callVars, localVars,
                   mc_next, mc_res, mc_order, rme_done, pa_done, stored, rowlog,
                   restarted, contrastVars, fnVars>>

\* an iteration raises: Parallel re-raises in the caller
MC_Raise ==
    /\ Running /\ InBatch
    /\ mc_running # {}
    /\ mc_raised' = TRUE
    /\ Raise("WorkerError")
    /\ UNCHANGED <<orchVars, fs, callVars, rme_done, pa_done, stored, rowlog,
                   restarted, contrastVars, fnVars>>

\* every iteration has returned
BatchComplete ==
    /\ mc_running = {}
    /\ DOMAIN mc_res = 1..MonteCarloIterations

\* ME_Gather that does not wait for the iterations not yet dispatched
ME_Gather_Early ==
    /\ Running /\ pc = "me_mc"
    /\ mc_running = {} /\ DOMAIN mc_res # {}
    /\ nulls' = Zip(mc_res, Cardinality(DOMAIN mc_res))
    /\ fs' = WriteFile(fs, MonteCarloPath(meta), Partial)
    /\ pc' = "me_mc_dump"
    /\ UNCHANGED <<orchVars, status, error, callVars, thresholds, loaded,
                   mcVars, histVars, contrastVars, fnVars>>

\* 192, 207-211: Parallel returns, zip(*...), open() of the pickle
ME_Gather ==
    /\ Running /\ pc = "me_mc"
    /\ BatchComplete
    /\ nulls' = Zip(mc_res, Cardinality(DOMAIN mc_res))
    /\ fs' = WriteFile(fs, MonteCarloPath(meta), Partial)
    /\ pc' = "me_mc_dump"
    /\ UNCHANGED <<orchVars, status, error, callVars, thresholds, loaded,
                   mcVars, histVars, contrastVars, fnVars>>

\* 212: pickle.dump of the Monte Carlo null, and the file is closed
ME_MonteCarloDump ==
    /\ Running /\ pc = "me_mc_dump"
    /\ fs' = WriteFile(fs, MonteCarloPath(meta), Complete(nulls))
    /\ stored' = WriteFile(stored, meta, nulls)
    /\ pc' = "me_pct"
    /\ UNCHANGED <<orchVars, status, error, callVars, localVars, mcVars,
                   rme_done, pa_done, rowlog, restarted, mc_raised, contrastVars, fnVars>>

\* 214-216
ME_Percentile ==
    /\ Running /\ pc = "me_pct"
    /\ thresholds' = <<Percentile95(nulls[1]), Percentile95(nulls[2]),
                       Percentile95(nulls[3])>>
    /\ pc' = "me_infer"
    /\ UNCHANGED <<orchVars, fs, status, error, callVars, nulls, loaded,
                   mcVars, histVars, contrastVars, fnVars>>

\* 219-251: thresholded maps; main_effect returns to its caller
ME_Inference ==
    /\ Running /\ pc = "me_infer"
    /\ fs' = IF ~Exists(fs, InferenceCheckPath(meta))
             THEN LET f1 == plot_and_save(fs, VfwePath(meta), <<>>)
                      f2 == plot_and_save(f1, CfwePath(meta), <<>>)
                  IN  IF params.tfce_enabled
                      THEN plot_and_save(f2, Tfce05Path(meta), <<>>)
                      ELSE f2
             ELSE fs
    /\ rowlog' = rowlog \o <<<<"main_effect_done", meta>>>>
    /\ pc' = CASE caller = "run_main_effect" -> "rme_after"
               [] caller = "run_contrast_analysis" -> "rc_contrib"
               [] OTHER -> "rb_check"
    /\ rc_idx' = IF caller = "run_balanced_contrast" THEN rc_idx + 1 ELSE rc_idx
    /\ Leave
    /\ UNCHANGED <<orchVars, status, error, caller, meta, target_n, meta_names,
                   rme_done, pa_done, stored, restarted, mc_raised, contrastVars, fnVars>>

(***************************************************************************)
(* probabilistic_ale (main_effect.py 254-363)                              *)
(***************************************************************************)
\* 267-295: kernels, included experiments, MA volumes
PA_Prepare ==
    /\ Running /\ pc = "pa_prepare"
    /\ LET f1 == WriteFile(fs, CVKernelsPath(meta), Complete(<<>>))
           f2 == WriteFile(f1, CVIncludedPath(meta), Complete(<<>>))
       IN  fs' = WriteFile(f2, CVMaPath(meta), Complete(<<>>))
    /\ pc' = "pa_null"
    /\ UNCHANGED <<orchVars, status, error, callVars, localVars, mcVars,
                   histVars, contrastVars, fnVars>>

\* 300-313: the cluster null is loaded if it is on disk at the place
\* looked at, otherwise the simulation starts
PA_Null ==
    /\ Running /\ pc = "pa_null"
    /\ IF Exists(fs, CVNullCheckPath(meta, target_n))
       THEN IF fs[CVNullCheckPath(meta, target_n)].complete
            THEN /\ nulls' = <<<<>>, fs[CVNullCheckPath(meta, target_n)].data, <<>>>>
                 /\ thresholds' =
                      <<0, Percentile95(fs[CVNullCheckPath(meta, target_n)].data), 0>>
                 /\ loaded' = loaded \cup {"montecarlo"}
                 /\ pc' = "pa_vol"
                 /\ UNCHANGED <<status, error, mcVars>>
            ELSE Raise("EOFError")
       ELSE /\ pc' = "pa_mc"
            /\ UNCHANGED <<status, error, localVars, mcVars>>
    /\ UNCHANGED <<orchVars, fs, callVars, histVars, contrastVars, fnVars>>

\* 313, 329-334: Parallel returns, percentile, open() of the pickle
PA_Gather ==
    /\ Running /\ pc = "pa_mc"
    /\ BatchComplete
    /\ LET z == Zip(mc_res, Cardinality(DOMAIN mc_res)) IN
        /\ nulls' = <<<<>>, z[2], <<>>>>
        /\ thresholds' = <<0, Percentile95(z[2]), 0>>
    /\ fs' = WriteFile(fs, CVNullPath(meta, target_n), Partial)
    /\ pc' = "pa_dump"
    /\ UNCHANGED <<orchVars, status, error, callVars, loaded, mcVars,
                   histVars, contrastVars, fnVars>>

\* 335: pickle.dump of the cluster null, and the file is closed
PA_Dump ==
    /\ Running /\ pc = "pa_dump"
    /\ fs' = WriteFile(fs, CVNullPath(meta, target_n), Complete(nulls[2]))
    /\ pc' = "pa_vol"
    /\ UNCHANGED <<orchVars, status, error, callVars, localVars, mcVars,
                   histVars, contrastVars, fnVars>>

\* 336-363: the subsampled ALE volume; probabilistic_ale and its runner return
PA_Volume ==
    /\ Running /\ pc = "pa_vol"
    /\ IF Exists(fs, SubAlePath(meta, target_n))
       THEN /\ rowlog' = rowlog \o <<<<"load_sub_ale", meta>>>>
            /\ UNCHANGED fs
       ELSE /\ fs' = plot_and_save(fs, SubAlePath(meta, target_n), <<>>)
            /\ rowlog' = rowlog \o <<<<"compute_sub_ale", meta>>>>
    /\ pa_done' = pa_done \cup {<<meta, target_n>>}
    /\ NextRow(analysis_df)
    /\ Leave
    /\ UNCHANGED <<params, callVars, rme_done, stored,
                   restarted, mc_raised, contrastVars, fnVars>>

(***************************************************************************)
(* The process is killed while a pickle file is open for writing, and      *)
(* run_ale is started again on the same project directory.  (A kill at any *)
(* other point leaves the files of a state of an uninterrupted run.)       *)
(***************************************************************************)
Writing == pc \in {"me_hist_dump", "me_mc_dump", "pa_dump"}

Crash ==
    /\ Running /\ Writing
    /\ status' = "crashed"
    /\ Leave
    /\ UNCHANGED <<orchVars, fs, error, pc, callVars, histVars, contrastVars, fnVars>>

Restart ==
    /\ status = "crashed" /\ ~restarted
    /\ restarted' = TRUE
    /\ status' = "running"
    /\ error' = ""
    /\ pc' = "loop"
    /\ row_idx' = 0
    /\ caller' = ""
    /\ meta' = ""
    /\ target_n' = NoneT
    /\ meta_names' = <<>>
    /\ rc_idx' = 0
    /\ nulls' = <<>>
    /\ thresholds' = <<>>
    /\ loaded' = {}
    /\ mc_next' = 1
    /\ mc_running' = {}
    /\ mc_res' = <<>>
    /\ mc_order' = <<>>
    /\ mc_raised' = FALSE
    /\ rowlog' = <<>>
    /\ analysis_df' = <<>>
    /\ UNCHANGED <<params, fs, rme_done, pa_done, stored,
                   contrastVars, fnVars>>

Next ==
    \/ LoopSkip
    \/ LoopEnd
    \/ DispatchMainEffect
    \/ RunMainEffectAfter
    \/ DispatchProbabilistic
    \/ DispatchContrast
    \/ ContrastPrerequisite
    \/ ContrastSkip
    \/ ContrastContribution
    \/ ContrastCall
    \/ DispatchBalanced
    \/ BalancedPrerequisite
    \/ BalancedSkip
    \/ BalancedContrastCall
    \/ ME_Prepare
    \/ ME_Ale
    \/ ME_HistDump
    \/ ME_Z
    \/ ME_PredictCutoff
    \/ ME_LoadNull
    \/ ME_SimulateNull
    \/ MC_Dispatch
    \/ MC_Finish
    \/ MC_Raise
    \/ ME_Gather
    \/ ME_MonteCarloDump
    \/ ME_Percentile
    \/ ME_Inference
    \/ PA_Prepare
    \/ PA_Null
    \/ PA_Gather
    \/ PA_Dump
    \/ PA_Volume
    \/ Crash

Spec == Init /\ [][Next]_vars

\* the same, with run_ale started again after a crash
NextRestart ==
    \/ Next
    \/ Restart

SpecRestart == Init /\ [][NextRestart]_vars

(***************************************************************************)
(* The experiment tables of a contrast: setup_contrast_data (ale.py        *)
(* 302-308) and the removal of the overlap in run_contrast_analysis        *)
(* (ale.py 198-199).  A table is the sequence of its rows, a row holding   *)
(* its index label and the experiment (its row number in exp_all_df).      *)
(***************************************************************************)
MaxExp == 3
Experiments == 0..(MaxExp - 1)

RECURSIVE Ascending(_)
\* the members of a set of numbers as an increasing list
Ascending(S) ==
    IF S = {} THEN <<>>
    ELSE LET m == CHOOSE x \in S : \A y \in S : x <= y
         IN  <<m>> \o Ascending(S \ {m})

\* the lists of experiment indices compile_experiments may return
PoolLists == {Ascending(S) : S \in SUBSET Experiments}

\* exp_all_df.loc[exp_idxs]: the rows labelled exp_idxs, in that order
Loc(exp_idxs) == [k \in 1..Len(exp_idxs) |-> [index |-> exp_idxs[k], exp |-> exp_idxs[k]]]

\* df.reset_index(drop=True): the labels become 0..n-1
ResetIndex(df) == [k \in 1..Len(df) |-> [index |-> k - 1, exp |-> df[k].exp]]

\* set(df.index)
IndexSet(df) == {df[k].index : k \in 1..Len(df)}

KeepRow(labels, row) == row.index \notin labels

\* df.drop(labels): the rows whose label is not in labels
Drop(df, labels) == SelectSeq(df, LAMBDA row : KeepRow(labels, row))

\* the experiments of a table
ExpsOf(df) == {df[k].exp : k \in 1..Len(df)}

InitContrast ==
    /\ analysis_df = <<>>
    /\ row_idx = 0
    /\ params \in [cutoff_predict_enabled : {TRUE}, tfce_enabled : {TRUE}]
    /\ fs = EmptyFS
    /\ status = "running"
    /\ error = ""
    /\ pc = "loop"
    /\ NoCall
    /\ NoLocals
    /\ NoBatch
    /\ rme_done = {}
    /\ pa_done = {}
    /\ stored = EmptyFS
    /\ rowlog = <<>>
    /\ restarted = FALSE
    /\ mc_raised = FALSE
    /\ pools \in PoolLists \X PoolLists
    /\ exp_dfs = <<>>
    /\ cpc = "setup"
    /\ NoFunction

mainVars == <<orchVars, fs, status, error, pc, callVars, localVars, mcVars,
              histVars>>

\* ale.py 302-308
CD_Setup ==
    /\ cpc = "setup"
    /\ exp_dfs' = <<ResetIndex(Loc(pools[1])), ResetIndex(Loc(pools[2]))>>
    /\ cpc' = "overlap"
    /\ UNCHANGED <<mainVars, fnVars, pools>>

\* ale.py 198-199
CD_DropOverlap ==
    /\ cpc = "overlap"
    /\ LET exp_overlap == IndexSet(exp_dfs[1]) \cap IndexSet(exp_dfs[2])
       IN  exp_dfs' = <<Drop(exp_dfs[1], exp_overlap), Drop(exp_dfs[2], exp_overlap)>>
    /\ cpc' = "contrast"
    /\ UNCHANGED <<mainVars, fnVars, pools>>

\* ale.py 201-207: contrast() is given the names, not the tables
CD_Contrast ==
    /\ cpc = "contrast"
    /\ cpc' = "done"
    /\ UNCHANGED <<mainVars, fnVars, pools, exp_dfs>>

NextContrast ==
    \/ CD_Setup
    \/ CD_DropOverlap
    \/ CD_Contrast

SpecContrast == InitContrast /\ [][NextContrast]_vars

(***************************************************************************)
(* The functions of core/utils/input.py, each taken alone: the arguments   *)
(* are drawn in the initial state and one action applies the function.     *)
(* The rest of the program stands still.                                   *)
(***************************************************************************)
ProgramIdle ==
    /\ analysis_df = <<>>
    /\ row_idx = 0
    /\ params = [cutoff_predict_enabled |-> TRUE, tfce_enabled |-> TRUE]
    /\ fs = EmptyFS
    /\ status = "running"
    /\ error = ""
    /\ pc = "loop"
    /\ NoCall
    /\ NoLocals
    /\ NoBatch
    /\ rme_done = {}
    /\ pa_done = {}
    /\ stored = EmptyFS
    /\ rowlog = <<>>
    /\ restarted = FALSE
    /\ mc_raised = FALSE
    /\ NoContrastData

programVars == <<mainVars, contrastVars>>

(***************************************************************************)
(* check_coordinates_are_numbers (input.py 94-135).  A cell of the sheet   *)
(* is a whole number, a decimal, a text, a text of digits, or empty (NaN); *)
(* v2 is twice its numeric value.  A column has the dtype pandas gave it   *)
(* when the sheet was read, before its empty rows were dropped.            *)
(***************************************************************************)
MaxCoordRows == 2

Cells == {[kind |-> "int", v2 |-> 2], [kind |-> "float", v2 |-> 3],
          [kind |-> "str", v2 |-> 0], [kind |-> "numstr", v2 |-> 4],
          [kind |-> "nan", v2 |-> 0]}

CoordCols == {"x", "y", "z"}

\* the dtype pd.read_excel infers for a column; blank: the sheet had a
\* completely empty row (input.py 52, 66)
InferDtype(cells, blank) ==
    IF \E k \in 1..Len(cells) : cells[k].kind \in {"str", "numstr"} THEN "object"
    ELSE IF blank \/ \E k \in 1..Len(cells) : cells[k].kind \in {"float", "nan"}
    THEN "float64"
    ELSE "int64"

\* the table load_excel hands on: the labels of the rows kept, the cells of
\* the coordinate columns and their dtypes
CoordTable(rows, blank) ==
    [index |-> [k \in 1..Len(rows) |-> IF blank THEN k ELSE k - 1],
     x |-> [k \in 1..Len(rows) |-> rows[k][1]],
     y |-> [k \in 1..Len(rows) |-> rows[k][2]],
     z |-> [k \in 1..Len(rows) |-> rows[k][3]],
     dtype |-> [c \in CoordCols |->
                  InferDtype([k \in 1..Len(rows) |->
                                rows[k][CASE c = "x" -> 1 [] c = "y" -> 2 [] OTHER -> 3]],
                             blank)]]

CoordRowLists == UNION {[1..n -> Cells \X Cells \X Cells] : n \in 1..MaxCoordRows}

\* pd.api.types.is_float_dtype(df[coord_col])
is_float_dtype(df, coord_col) == df.dtype[coord_col] = "float64"

\* pd.to_numeric(..., errors="coerce").isnull()
CoercedIsNull(cell) == cell.kind \in {"str", "nan"}

\* (coerced_column.isnull()) | (coerced_column % 1 != 0)
non_integer_mask(cell) == CoercedIsNull(cell) \/ cell.v2 % 2 # 0

\* df.index[non_integer_mask]: the positions of the cells in the mask
MaskedPositions(cells) ==
    SelectSeq([k \in 1..Len(cells) |-> k], LAMBDA k : non_integer_mask(cells[k]))

\* rows_with_errors.values + 2
RowsWithErrors(df, coord_col) ==
    LET ks == MaskedPositions(df[coord_col])
    IN  [j \in 1..Len(ks) |-> df.index[ks[j]] + 2]

\* the line printed for a column that is not of float dtype (127-129)
CoordLine(df, coord_col) ==
    IF is_float_dtype(df, coord_col) THEN <<>>
    ELSE <<<<"Non-numeric Coordinates in column", coord_col, RowsWithErrors(df, coord_col)>>>>

\* df.reset_index(drop=True)
reset_index(df) == [df EXCEPT !.index = [k \in 1..Len(df.index) |-> k - 1]]

InitCoordinates ==
    /\ ProgramIdle
    /\ fn = "call"
    /\ \E rows \in CoordRowLists, blank \in BOOLEAN :
         args = [df |-> CoordTable(rows, blank)]
    /\ result = <<>>
    /\ stdout = <<>>

check_coordinates_are_numbers ==
    /\ fn = "call"
    /\ stdout' = CoordLine(args.df, "x") \o CoordLine(args.df, "y")
                   \o CoordLine(args.df, "z")
    /\ IF \E c \in CoordCols : ~is_float_dtype(args.df, c)
       THEN /\ fn' = "exited"
            /\ result' = <<>>
       ELSE /\ fn' = "returned"
            /\ result' = reset_index(args.df)
    /\ UNCHANGED <<programVars, args>>

NextCoordinates == check_coordinates_are_numbers

SpecCoordinates == InitCoordinates /\ [][NextCoordinates]_vars

(***************************************************************************)
(* transform_coordinates_to_voxel_space (input.py 267-305).  A coordinate  *)
(* is a triplet of whole millimetres; the table is the list of its         *)
(* experiments, each the list of its Coordinates_mm.                       *)
(***************************************************************************)
MaxFoci == 2

\* millimetre values on both sides of the grid and inside it
MmValues == {-200, -95, 0, 1, 200}
MmTriplets == MmValues \X MmValues \X MmValues
FociLists == UNION {[1..n -> MmTriplets] : n \in 1..MaxFoci}

\* np.ceil(n / 2) for an integer n
CeilHalf(n) == (n + 1) \div 2

\* np.ceil(np.dot(np.linalg.inv(MNI_AFFINE), xyzmm.T))[:3].T.astype(int),
\* MNI_AFFINE being the affine of the 2 mm grid of 91 x 109 x 91 voxels
ToVoxel(mm) == <<CeilHalf(90 - mm[1]), CeilHalf(mm[2] + 126), CeilHalf(mm[3] + 72)>>

\* thresholds = [90, 108, 90]
VoxelThresholds == <<90, 108, 90>>

\* np.minimum(row["Coordinates"], thresholds)
Minimum(v, t) == [a \in 1..3 |-> IF v[a] <= t[a] THEN v[a] ELSE t[a]]

\* the Coordinates column of one experiment
VoxelCoordinates(coords_mm) ==
    [j \in 1..Len(coords_mm) |-> Minimum(ToVoxel(coords_mm[j]), VoxelThresholds)]

InitVoxel ==
    /\ ProgramIdle
    /\ fn = "call"
    /\ \E foci \in FociLists : args = [exp_info |-> <<[Coordinates_mm |-> foci]>>]
    /\ result = <<>>
    /\ stdout = <<>>

transform_coordinates_to_voxel_space ==
    /\ fn = "call"
    /\ result' = [i \in 1..Len(args.exp_info) |->
                    [Coordinates_mm |-> args.exp_info[i].Coordinates_mm,
                     Coordinates |-> VoxelCoordinates(args.exp_info[i].Coordinates_mm)]]
    /\ fn' = "returned"
    /\ UNCHANGED <<programVars, args, stdout>>

NextVoxel == transform_coordinates_to_voxel_space

SpecVoxel == InitVoxel /\ [][NextVoxel]_vars

(***************************************************************************)
(* concat_coordinates (input.py 138-210).  The table is the list of its    *)
(* rows, with the index 0..n-1 that check_coordinates_are_numbers gave it; *)
(* a row holds its Articles cell (NaN for an empty one) and its coordinate *)
(* triplet, which is named by the row's position.                          *)
(***************************************************************************)
MaxSheetRows == 4

NaN == "NaN"

\* the article names, in the order groupby sorts them
ArticleOrder == <<"a", "b">>
ArticleCells == {ArticleOrder[k] : k \in 1..Len(ArticleOrder)} \cup {NaN}

SheetTable(cells) == [k \in 1..Len(cells) |-> [Articles |-> cells[k], xyz |-> k]]

\* exp_info.groupby("Articles"): the names present, sorted
GroupKeys(exp_info) ==
    SelectSeq(ArticleOrder,
              LAMBDA name : \E k \in 1..Len(exp_info) : exp_info[k].Articles = name)

\* groupby("Articles")[...].apply(list): the coordinates of a group, in row order
GroupCoordinates(exp_info, name) ==
    LET rows == SelectSeq(exp_info, LAMBDA row : row.Articles = name)
    IN  [j \in 1..Len(rows) |-> rows[j].xyz]

\* 181: the index labels of the rows that have an article
article_rows(exp_info) ==
    LET ks == SelectSeq([k \in 1..Len(exp_info) |-> k],
                        LAMBDA k : exp_info[k].Articles # NaN)
    IN  [j \in 1..Len(ks) |-> ks[j] - 1]

\* end_of_articles with each end taken as the next article's own row
end_of_articles_Inclusive(rows, n) ==
    [j \in 1..Len(rows) |-> IF j < Len(rows) THEN rows[j + 1] ELSE n]

\* 183-185: the label of the last row of each article's block
end_of_articles(rows, n) ==
    [j \in 1..Len(rows) |-> IF j < Len(rows) THEN rows[j + 1] - 1 ELSE n]

\* exp_info.loc[lo : hi]: the rows labelled lo..hi, both ends included
LocSlice(exp_info, lo, hi) ==
    SelectSeq(exp_info, LAMBDA row : lo <= row.xyz - 1 /\ row.xyz - 1 <= hi)

\* 197-208: one row of the result, for article i of the second layout
BlockRow(exp_info, i) ==
    LET starts == article_rows(exp_info)
        ends == end_of_articles(starts, Len(exp_info))
        x == LocSlice(exp_info, starts[i], ends[i])
    IN  [Articles |-> exp_info[starts[i] + 1].Articles,
         Coordinates_mm |-> [j \in 1..Len(x) |-> x[j].xyz],
         NumberOfFoci |-> Len(x)]

\* 160-176: one row of the result, for a name of the first layout
GroupRow(exp_info, name) ==
    [Articles |-> name,
     Coordinates_mm |-> GroupCoordinates(exp_info, name),
     NumberOfFoci |-> Len(GroupCoordinates(exp_info, name))]

InitConcat ==
    /\ ProgramIdle
    /\ fn = "call"
    /\ \E n \in 1..MaxSheetRows : \E cells \in [1..n -> ArticleCells] :
         args = [exp_info |-> SheetTable(cells)]
    /\ result = <<>>
    /\ stdout = <<>>

concat_coordinates ==
    /\ fn = "call"
    /\ LET exp_info == args.exp_info IN
       IF \A k \in 1..Len(exp_info) : exp_info[k].Articles # NaN
       THEN /\ result' = [i \in 1..Len(GroupKeys(exp_info)) |->
                            GroupRow(exp_info, GroupKeys(exp_info)[i])]
            /\ fn' = "returned"
       ELSE IF article_rows(exp_info) = <<>>
       THEN \* end_of_articles.pop(0) on an empty list: IndexError
            /\ result' = <<>>
            /\ fn' = "raised"
       ELSE /\ result' = [i \in 1..Len(article_rows(exp_info)) |->
                            BlockRow(exp_info, i)]
            /\ fn' = "returned"
    /\ UNCHANGED <<programVars, args, stdout>>

NextConcat == concat_coordinates

SpecConcat == InitConcat /\ [][NextConcat]_vars

(***************************************************************************)
(* The subsamples of probabilistic_ale (main_effect.py 346-348), the call  *)
(* taken alone.  generate_unique_subsamples is imported from               *)
(* core/utils/compute.py; it is modelled from its description: sample_n    *)
(* different subsets of target_n indices, or, when there are not that many *)
(* different subsets, a failure or every subset there is.                  *)
(***************************************************************************)
MaxPool == 4
MaxTarget == 3
MaxSamples == 3

\* the subsets of size_n (the target_n of the call) indices out of 0..total_n-1
Subsets(total_n, size_n) ==
    {S \in SUBSET (0..(total_n - 1)) : Cardinality(S) = size_n}

\* the lists of n different members of the set C
DistinctLists(C, n) ==
    {l \in [1..n -> C] : \A i, j \in 1..n : i # j => l[i] # l[j]}

\* the outcomes of generate_unique_subsamples: a list of subsets returned,
\* or an exception
generate_unique_subsamples(total_n, size_n, sample_n) ==
    LET C == Subsets(total_n, size_n)
    IN  IF sample_n <= Cardinality(C)
        THEN {[raised |-> FALSE, samples |-> l] : l \in DistinctLists(C, sample_n)}
        ELSE {[raised |-> TRUE, samples |-> <<>>]}
             \cup {[raised |-> FALSE, samples |-> l] :
                       l \in DistinctLists(C, Cardinality(C))}

\* SubsampleCall with the first two arguments in each other's place
SubsampleCall_Swapped(exp_df_rows, tn, sn) ==
    generate_unique_subsamples(tn, exp_df_rows, sn)

\* 346-348: total_n=exp_df.shape[0], target_n=target_n, sample_n=sample_n
SubsampleCall(exp_df_rows, tn, sn) ==
    generate_unique_subsamples(exp_df_rows, tn, sn)

InitSamples ==
    /\ ProgramIdle
    /\ fn = "call"
    /\ args \in [exp_df_rows : 1..MaxPool, target_n : 1..MaxTarget,
                 sample_n : 1..MaxSamples]
    /\ result = <<>>
    /\ stdout = <<>>

PA_Samples ==
    /\ fn = "call"
    /\ \E out \in SubsampleCall(args.exp_df_rows, args.target_n, args.sample_n) :
         /\ fn' = IF out.raised THEN "raised" ELSE "returned"
         /\ result' = out.samples
    /\ UNCHANGED <<programVars, args, stdout>>

NextSamples == PA_Samples

SpecSamples == InitSamples /\ [][NextSamples]_vars

(***************************************************************************)
(* The cluster-wise inference of main_effect (main_effect.py 229-237),     *)
(* taken alone.  The z map is a row of voxels, each above the cluster      *)
(* forming threshold (1) or not (0); a cluster is a run of neighbouring    *)
(* voxels above it and its mass is its length.  compute_clusters is        *)
(* imported from core/utils/compute.py and modelled from its description.  *)
(* Thresholds are held times 20, as the percentiles are.                   *)
(***************************************************************************)
MaxVoxels == 5

ZMaps == [1..MaxVoxels -> {0, 1}]
CfweThresholds == {10 * k : k \in 0..(2 * MaxVoxels + 1)}

\* voxels i and j lie in one cluster
SameCluster(z, i, j) ==
    \A k \in 1..Len(z) : ((i <= k /\ k <= j) \/ (j <= k /\ k <= i)) => z[k] = 1

\* the mass of the cluster voxel i lies in, 0 outside every cluster
ClusterMass(z, i) == Cardinality({j \in 1..Len(z) : SameCluster(z, i, j)})

Max(S) == IF S = {} THEN 0 ELSE CHOOSE x \in S : \A y \in S : y <= x

\* compute_clusters(z, cluster_forming_threshold, cfwe_threshold):
\* (the map with the clusters above the threshold, the largest cluster mass)
compute_clusters(z, cfwe_threshold) ==
    [cfwe_map |-> [i \in 1..Len(z) |->
                     IF 20 * ClusterMass(z, i) > cfwe_threshold THEN z[i] ELSE 0],
     max_clust |-> Max({ClusterMass(z, i) : i \in 1..Len(z)})]

\* the test of line 236 with the threshold itself counted as significant
CfweSignificant_AtLeast(max_clust, cfwe_threshold) == 20 * max_clust >= cfwe_threshold

\* 236: if max_clust > cfwe_threshold
CfweSignificant(max_clust, cfwe_threshold) == 20 * max_clust > cfwe_threshold

InitInference ==
    /\ ProgramIdle
    /\ fn = "call"
    /\ args \in [z : ZMaps, cfwe_threshold : CfweThresholds]
    /\ result = <<>>
    /\ stdout = <<>>

\* 229-237: the cFWE map is computed and saved, the effect is reported
ME_ClusterInference ==
    /\ fn = "call"
    /\ LET out == compute_clusters(args.z, args.cfwe_threshold) IN
         /\ result' = out.cfwe_map
         /\ stdout' = IF CfweSignificant(out.max_clust, args.cfwe_threshold)
                      THEN <<"cFWE: significant effect found.">>
                      ELSE <<>>
    /\ fn' = "returned"
    /\ UNCHANGED <<programVars, args>>

NextInference == ME_ClusterInference

SpecInference == InitInference /\ [][NextInference]_vars

(***************************************************************************)
(* load_excel (input.py 24-91), taken alone.  A file is missing, not an    *)
(* Excel file, unreadable for another reason, or a sheet; a sheet is its   *)
(* number of columns and, for each of its data rows, the number of cells   *)
(* that are not empty.                                                     *)
(***************************************************************************)
MaxExcelRows == 3

FileKinds == {"missing", "invalid", "error", "sheet"}
ExcelTypes == {"analysis", "experiment"}
SheetColumns == {5, 6}
CellCounts(ncols) == {0, 1, 2, 3, ncols}
SheetRowLists(ncols) == UNION {[1..n -> CellCounts(ncols)] : n \in 0..MaxExcelRows}

\* 51-63: what pd.read_excel raises, and what is printed before sys.exit()
ReadError(kind) ==
    CASE kind = "missing" -> <<"File not found.">>
      [] kind = "invalid" -> <<"Error reading Excel file. Make sure it's a valid Excel file.">>
      [] kind = "error" -> <<"An error occurred">>
      [] OTHER -> <<>>

\* 52: the table read, row k of the data under the index label k - 1
ReadExcel(rows) == [k \in 1..Len(rows) |-> [index |-> k - 1, notna |-> rows[k]]]

\* 66: df.dropna(how="all")
DropEmpty(df) == SelectSeq(df, LAMBDA row : row.notna # 0)

\* IsMistake looking for rows of one entry only
IsMistake_OnlyOne(row) == row.notna = 1

\* 70: (df.notna().sum(axis=1) == 1) | (df.notna().sum(axis=1) == 2)
IsMistake(row) == row.notna = 1 \/ row.notna = 2

mistake_rows(df) == SelectSeq(df, LAMBDA row : IsMistake(row))

\* 72-73: np.array(mistake_rows.index.tolist()) + 2
row_indices(df) == [k \in 1..Len(mistake_rows(df)) |-> mistake_rows(df)[k].index + 2]

InitExcel ==
    /\ ProgramIdle
    /\ fn = "call"
    /\ \E kind \in FileKinds, type \in ExcelTypes, ncols \in SheetColumns :
       \E rows \in SheetRowLists(ncols) :
         /\ kind # "sheet" => (rows = <<>> /\ ncols = 6)
         /\ args = [kind |-> kind, type |-> type, ncols |-> ncols, rows |-> rows]
    /\ result = <<>>
    /\ stdout = <<>>

load_excel ==
    /\ fn = "call"
    /\ IF args.kind # "sheet"
       THEN /\ stdout' = ReadError(args.kind)
            /\ fn' = "exited"
            /\ result' = <<>>
       ELSE LET df == DropEmpty(ReadExcel(args.rows)) IN
            IF args.type = "experiment" /\ mistake_rows(df) # <<>>
            THEN /\ stdout' = <<"Error: Rows with only one or two entries found at indices:",
                                row_indices(df)>>
                 /\ fn' = "exited"
                 /\ result' = <<>>
            ELSE IF args.type = "experiment" /\ args.ncols < 6
            THEN \* 81-88: six names assigned to fewer columns, ValueError
                 /\ fn' = "raised"
                 /\ result' = <<>>
                 /\ stdout' = <<>>
            ELSE /\ fn' = "returned"
                 /\ result' = df
                 /\ stdout' = <<>>
    /\ UNCHANGED <<programVars, args>>

NextExcel == load_excel

SpecExcel == InitExcel /\ [][NextExcel]_vars

(***************************************************************************)
(* The choice of the runner in run_ale's loop (ale.py 373-397), for every  *)
(* kind of type code, the runners themselves left out: a runner returns,   *)
(* or raises and ends the process.  args keeps the table as it was read.   *)
(***************************************************************************)
MaxTableRows == 3

ClusterCode == <<"C", "l", "u", "s", "t", "e", "r">>

\* type codes of every kind; <<>> is a cell that is not a string
DispatchCodes == {<<"M">>, <<"M", "2">>, <<"P">>, <<"P", "2">>, <<"C">>,
                  <<"C", "2">>, ClusterCode, <<"B", "2">>, <<"X">>, <<>>}

DispatchTables ==
    UNION {[1..n -> [code : DispatchCodes, name : {"a"}]] : n \in 1..MaxTableRows}

\* Runner with the contrast chosen by the first letter, as 'P' and 'B' are
Runner_ContrastByLetter(code) ==
    IF ~IsStr(code) THEN "continue"
    ELSE IF code = <<"M">> THEN "run_main_effect"
    ELSE IF code[1] = "P" THEN "run_probabilistic_ale"
    ELSE IF code[1] = "C" THEN "run_contrast_analysis"
    ELSE IF code[1] = "B" THEN "run_balanced_contrast"
    ELSE IF code = ClusterCode THEN "run_ma_clustering"
    ELSE "none"

\* 375-397: the tests of the loop body, in their order
Runner(code) ==
    IF ~IsStr(code) THEN "continue"
    ELSE IF code = <<"M">> THEN "run_main_effect"
    ELSE IF code[1] = "P" THEN "run_probabilistic_ale"
    ELSE IF code = <<"C">> THEN "run_contrast_analysis"
    ELSE IF code[1] = "B" THEN "run_balanced_contrast"
    ELSE IF code = ClusterCode THEN "run_ma_clustering"
    ELSE "none"

Runs(code) == Runner(code) \notin {"continue", "none"}

dispatchFixed == <<params, fs, callVars, localVars, mcVars, rme_done, pa_done,
                   stored, restarted, mc_raised, contrastVars, fnVars>>

InitDispatch ==
    /\ \E table \in DispatchTables :
         /\ analysis_df = table
         /\ args = [analysis_df |-> table]
    /\ row_idx = 0
    /\ params = [cutoff_predict_enabled |-> TRUE, tfce_enabled |-> TRUE]
    /\ fs = EmptyFS
    /\ status = "running"
    /\ error = ""
    /\ pc = "loop"
    /\ NoCall
    /\ NoLocals
    /\ NoBatch
    /\ rme_done = {}
    /\ pa_done = {}
    /\ stored = EmptyFS
    /\ rowlog = <<>>
    /\ restarted = FALSE
    /\ mc_raised = FALSE
    /\ NoContrastData
    /\ fn = ""
    /\ result = <<>>
    /\ stdout = <<>>

\* one pass of the loop body: the row's runner, if any, runs and returns
RA_Row ==
    /\ Running /\ pc = "loop" /\ analysis_df # <<>>
    /\ rowlog' = Append(rowlog, <<row_idx, Runner(Head(analysis_df).code)>>)
    /\ NextRow(analysis_df)
    /\ UNCHANGED dispatchFixed

\* one pass of the loop body: the row's runner raises
RA_RowRaises ==
    /\ Running /\ pc = "loop" /\ analysis_df # <<>>
    /\ Runs(Head(analysis_df).code)
    /\ rowlog' = Append(rowlog, <<row_idx, Runner(Head(analysis_df).code)>>)
    /\ status' = "failed"
    /\ error' = "RunnerError"
    /\ UNCHANGED <<analysis_df, row_idx, pc, dispatchFixed>>

\* 399: the loop is over
RA_End ==
    /\ Running /\ pc = "loop" /\ analysis_df = <<>>
    /\ status' = "done"
    /\ UNCHANGED <<analysis_df, row_idx, error, pc, rowlog, dispatchFixed>>

NextDispatch ==
    \/ RA_Row
    \/ RA_RowRaises
    \/ RA_End

SpecDispatch == InitDispatch /\ [][NextDispatch]_vars

(***************************************************************************)
(* create_tasks_table (input.py 308-366), taken alone.  An experiment is   *)
(* its number of subjects and its list of tags as concat_tags left it      *)
(* (lower case, stripped); the index of the table is 0..n-1.               *)
(***************************************************************************)
MaxTagged == 2

\* the tags, in the order np.unique sorts them
TagOrder == <<"p", "q">>
TagSet == {TagOrder[k] : k \in 1..Len(TagOrder)}
TagLists == UNION {[1..n -> TagSet] : n \in 0..2}
SubjectCounts == {10, 20}
TaggedTables ==
    UNION {[1..n -> [Subjects : SubjectCounts, Tags : TagLists]] : n \in 1..MaxTagged}

\* 333: np.hstack(exp_info["Tags"])
RECURSIVE Hstack(_)
Hstack(exp_info) ==
    IF exp_info = <<>> THEN <<>> ELSE Head(exp_info).Tags \o Hstack(Tail(exp_info))

\* 333: the names np.unique returns, sorted
task_names(exp_info) ==
    SelectSeq(TagOrder,
              LAMBDA t : \E k \in 1..Len(Hstack(exp_info)) : Hstack(exp_info)[k] = t)

\* 333: return_counts, the number of entries of the stacked tags equal to the task
task_counts(exp_info, task) ==
    Cardinality({k \in 1..Len(Hstack(exp_info)) : Hstack(exp_info)[k] = task})

\* 343-345: the index labels of the rows with np.any(row.Tags == task)
task_exp_idxs(exp_info, task) ==
    LET ks == SelectSeq([k \in 1..Len(exp_info) |-> k],
                        LAMBDA k : \E j \in 1..Len(exp_info[k].Tags) :
                                       exp_info[k].Tags[j] = task)
    IN  [j \in 1..Len(ks) |-> ks[j] - 1]

\* np.sum of the Subjects of the rows labelled idxs
RECURSIVE SumSubjects(_, _)
SumSubjects(exp_info, idxs) ==
    IF idxs = <<>> THEN 0
    ELSE exp_info[Head(idxs) + 1].Subjects + SumSubjects(exp_info, Tail(idxs))

\* 334-335, 348-352: the row of a task
TaskRow(exp_info, task) ==
    [Name |-> task,
     Num_Exp |-> task_counts(exp_info, task),
     TotalSubjects |-> SumSubjects(exp_info, task_exp_idxs(exp_info, task)),
     ExpIndex |-> task_exp_idxs(exp_info, task)]

\* 355-361: the row summarizing all experiments
AllRow(exp_info) ==
    LET everyone == [k \in 1..Len(exp_info) |-> k - 1]
    IN  [Name |-> "all",
         Num_Exp |-> Len(exp_info),
         TotalSubjects |-> SumSubjects(exp_info, everyone),
         ExpIndex |-> everyone]

UnsortedTasks(exp_info) ==
    [i \in 1..Len(task_names(exp_info)) |-> TaskRow(exp_info, task_names(exp_info)[i])]
        \o <<AllRow(exp_info)>>

\* 364: sort_values(by="Num_Exp", ascending=False); the order of rows with
\* equal Num_Exp is the sorting algorithm's
SortedByNumExp(tasks) ==
    {[i \in 1..Len(tasks) |-> tasks[f[i]]] :
        f \in {g \in [1..Len(tasks) -> 1..Len(tasks)] :
                 /\ \A i, j \in 1..Len(tasks) : i # j => g[i] # g[j]
                 /\ \A i \in 1..(Len(tasks) - 1) :
                      tasks[g[i]].Num_Exp >= tasks[g[i + 1]].Num_Exp}}

InitTasks ==
    /\ ProgramIdle
    /\ fn = "call"
    /\ \E table \in TaggedTables : args = [exp_info |-> table]
    /\ result = <<>>
    /\ stdout = <<>>

create_tasks_table ==
    /\ fn = "call"
    /\ result' \in SortedByNumExp(UnsortedTasks(args.exp_info))
    /\ fn' = "returned"
    /\ UNCHANGED <<programVars, args, stdout>>

NextTasks == create_tasks_table

SpecTasks == InitTasks /\ [][NextTasks]_vars

(***************************************************************************)
(* The subsample size of a balanced contrast (ale.py 237-238, 312-331),    *)
(* taken alone: the row's type code and the sizes of the two pools.        *)
(***************************************************************************)
MaxContrastPool == 6

BalancedCodes == {<<"B">>, <<"B", "0">>, <<"B", "2">>, <<"B", "9">>, <<"B", "1", "0">>}

InitTargetN ==
    /\ ProgramIdle
    /\ fn = "call"
    /\ args \in [row_value : BalancedCodes,
                 n1 : 1..MaxContrastPool, n2 : 1..MaxContrastPool]
    /\ result = <<>>
    /\ stdout = <<>>

\* 238: target_n = determine_target_n(analysis_df.iloc[row_idx, 0], exp_dfs)
RB_TargetN ==
    /\ fn = "call"
    /\ result' = <<determine_target_n(args.row_value, args.n1, args.n2)>>
    /\ fn' = "returned"
    /\ UNCHANGED <<programVars, args, stdout>>

NextTargetN == RB_TargetN

SpecTargetN == InitTargetN /\ [][NextTargetN]_vars

(***************************************************************************)
(* Properties                                                              *)
(***************************************************************************)

\* C1: once run_main_effect has completed for a name, a later
\* run_main_effect for that name does not call main_effect again.
C1_SkipIfExists ==
    (pc = "me_prepare" /\ caller = "run_main_effect") => meta \notin rme_done

\* C2: the Monte Carlo null a main_effect call has dumped for a name stays
\* on disk, complete, under the name the next call looks at; a call that
\* loads it has exactly the dumped vectors and has run no iteration; and the
\* simulation runs only for a name without a stored null.
C2_NullMemoized ==
    /\ \A m \in DOMAIN stored :
         /\ Exists(fs, MonteCarloPath(m))
         /\ fs[MonteCarloPath(m)] = Complete(stored[m])
    /\ (pc = "me_pct" /\ "montecarlo" \in loaded) =>
         /\ meta \in DOMAIN stored
         /\ nulls = stored[meta]
         /\ mc_next = 1 /\ mc_running = {} /\ mc_res = <<>>
    /\ pc \in {"me_mc", "me_mc_dump"} => meta \notin DOMAIN stored

\* a second main_effect call for a name has loaded the stored null
C2_Witness ==
    /\ Running /\ pc = "me_pct"
    /\ "montecarlo" \in loaded
    /\ meta \in DOMAIN stored
    /\ Len(stored[meta][1]) = MonteCarloIterations

\* C3: after a completed probabilistic run for (name, target_n), a repeated
\* run for the same pair neither simulates the Monte Carlo null again nor
\* computes the subsampled ALE volume again.
C3_ProbabilisticMemoized ==
    <<meta, target_n>> \in pa_done =>
        /\ pc # "pa_mc"
        /\ ~(pc = "pa_vol" /\ ~Exists(fs, SubAlePath(meta, target_n)))

\* main_effect holds a null it has simulated itself
Simulated ==
    /\ pc \in {"me_mc_dump", "me_pct", "me_infer"}
    /\ "montecarlo" \notin loaded
    /\ nulls # <<>>

\* component k of the results, in the order in which the workers finished
FinishOrder(k) == [j \in 1..Len(mc_order) |-> mc_res[mc_order[j]][k]]

\* C4: a simulation launches exactly monte_carlo_iterations iterations; no
\* null vector and no threshold exists while one of them is outstanding; the
\* three null vectors have monte_carlo_iterations entries each, and the
\* thresholds are those of the results taken in the order the workers
\* finished in, whatever that order was.
C4_AllIterationsThenThresholds ==
    /\ (pc = "me_mc" /\ Running) =>
         /\ mc_next <= MonteCarloIterations + 1
         /\ (DOMAIN mc_res) \cup mc_running = 1..(mc_next - 1)
         /\ nulls = <<>> /\ thresholds = <<>>
    /\ Simulated =>
         /\ mc_running = {}
         /\ mc_next = MonteCarloIterations + 1
         /\ DOMAIN mc_res = 1..MonteCarloIterations
         /\ Len(mc_order) = MonteCarloIterations
         /\ \A k \in 1..3 :
              /\ Len(nulls[k]) = MonteCarloIterations
              /\ \A i \in 1..MonteCarloIterations : nulls[k][i] = mc_res[i][k]
         /\ thresholds # <<>> =>
              \A k \in 1..3 : thresholds[k] = Percentile95(FinishOrder(k))

\* thresholds of a simulation whose last iteration finished first, the
\* iterations having returned different values
C4_Witness ==
    /\ Simulated /\ pc = "me_infer"
    /\ mc_order[1] = MonteCarloIterations
    /\ nulls[1][1] # nulls[1][MonteCarloIterations]
    /\ thresholds # <<>>

\* C5: when an iteration of main_effect's simulation raises, main_effect has
\* failed with that exception, there is no Monte Carlo null file, no
\* threshold and no thresholded map for the name; and thresholds are only
\* ever taken from null vectors of monte_carlo_iterations entries.
C5_BatchAborted ==
    /\ (mc_raised /\ pc = "me_mc") =>
         /\ status = "failed" /\ error = "WorkerError"
         /\ ~Exists(fs, MonteCarloPath(meta))
         /\ thresholds = <<>>
         /\ ~Exists(fs, VfwePath(meta))
         /\ ~Exists(fs, CfwePath(meta))
         /\ ~Exists(fs, Tfce05Path(meta))
    /\ (pc \in {"me_pct", "me_infer"} /\ nulls # <<>>) =>
         \A k \in 1..3 : Len(nulls[k]) = MonteCarloIterations

\* an iteration has raised in main_effect's simulation
C5_Witness ==
    /\ mc_raised /\ pc = "me_mc"
    /\ caller = "run_main_effect"
    /\ status = "failed"

\* C6: every file that exists under its final name is complete, at every
\* moment, and no run fails on loading a partially written file.
C6_AtomicWrites ==
    /\ \A p \in DOMAIN fs : fs[p].complete
    /\ error # "EOFError"

\* the experiments compile_experiments selected for pool k
PoolSet(k) == {pools[k][j] : j \in 1..Len(pools[k])}

\* C7: when contrast() is called, each pool holds exactly its experiments
\* that are not in the other pool: the shared ones are gone, the others kept.
C7_SharedExperimentsRemoved ==
    cpc \in {"contrast", "done"} =>
        /\ ExpsOf(exp_dfs[1]) = PoolSet(1) \ PoolSet(2)
        /\ ExpsOf(exp_dfs[2]) = PoolSet(2) \ PoolSet(1)

\* what run_contrast_analysis does for the name n before contrast()
PrerequisiteLog(n) ==
    IF Exists(fs, MainResultPath(n)) THEN <<>>
    ELSE <<<<"main_effect", n>>, <<"main_effect_done", n>>, <<"contribution", n>>>>

LastEntry == rowlog[Len(rowlog)]

\* a contrast row has been handled up to and including the call of contrast()
ContrastCalled == rowlog # <<>> /\ LastEntry[1] = "contrast"

C9_BalancedRecovered ==
    (caller = "run_balanced_contrast" /\ pc = "rb_check") => status # "failed"

\* the row whose log rowlog holds is a 'P' row without a number
MissingN(log) == log # <<>> /\ log[1][2] = <<"P">>

\* C10 as stated: a 'P' row without a number ends the process with an error.
C10_MissingNFatal == MissingN(rowlog) => status = "failed"

\* C10, amended: a 'P' row without a number is not fatal.  It is reported
\* with the warning "Need to specify subsampling N" (with the information
\* that results exist, if the file <name>_sub_ale_None.nii exists),
\* probabilistic_ale is never run for it, no file is written, and run_ale
\* goes on to the next row.
C10_MissingNWarned ==
    /\ [](pc \in {"pa_prepare", "pa_null", "pa_mc", "pa_dump", "pa_vol"}
            => (Truthy(target_n) /\ ~MissingN(rowlog)))
    /\ [][(MissingN(rowlog') /\ (rowlog' # rowlog \/ row_idx' # row_idx)) =>
            /\ status' = "running" /\ error' = ""
            /\ pc' = "loop" /\ row_idx' = row_idx + 1
            /\ fs' = fs
            /\ Len(rowlog') = 2
            /\ rowlog'[2][1] = (IF Exists(fs, ProbResultPath(rowlog'[1][3], NoneT))
                                THEN "info_exists" ELSE "warning_need_n")]_vars

\* the warning has been logged for the first row and the loop is at the second
C10_Witness ==
    /\ MissingN(rowlog)
    /\ Len(rowlog) = 2 /\ rowlog[2][1] = "warning_need_n"
    /\ Running /\ pc = "loop" /\ row_idx = 1

\* a value that is a number: a whole number or a decimal
IsNumber(cell) == cell.kind \in {"int", "float"}

\* the table has only numbers and texts that are no numbers
Unambiguous(df) ==
    \A c \in CoordCols : \A k \in 1..Len(df[c]) : df[c][k].kind \in {"int", "float", "str"}

\* the spreadsheet rows of the values of a column that are not numbers
OffendingRows(df, c) ==
    LET ks == SelectSeq([k \in 1..Len(df[c]) |-> k], LAMBDA k : ~IsNumber(df[c][k]))
    IN  [j \in 1..Len(ks) |-> df.index[ks[j]] + 2]

OffendingLine(df, c) ==
    IF OffendingRows(df, c) = <<>> THEN <<>>
    ELSE <<<<"Non-numeric Coordinates in column", c, OffendingRows(df, c)>>>>

\* C11: check_coordinates_are_numbers exits exactly when some x, y or z value
\* is not a number, then having printed for each offending column the
\* spreadsheet rows of exactly its offending values; otherwise it returns
\* all rows with the index 0..n-1.
C11_ExitIffNotNumber ==
    (fn \in {"exited", "returned"} /\ Unambiguous(args.df)) =>
        /\ fn = "exited" <=> \E c \in CoordCols : OffendingRows(args.df, c) # <<>>
        /\ fn = "exited" =>
             stdout = OffendingLine(args.df, "x") \o OffendingLine(args.df, "y")
                        \o OffendingLine(args.df, "z")
        /\ fn = "returned" =>
             /\ result.index = [k \in 1..Len(args.df.index) |-> k - 1]
             /\ \A c \in CoordCols : result[c] = args.df[c]

\* a voxel coordinate inside the grid of 91 x 109 x 91 voxels
InGrid(v) == 0 <= v[1] /\ v[1] <= 90 /\ 0 <= v[2] /\ v[2] <= 108 /\ 0 <= v[3] /\ v[3] <= 90

\* C12: every voxel coordinate transform_coordinates_to_voxel_space returns
\* lies inside the grid, and a coordinate whose voxel is inside the grid is
\* returned as that voxel.
C12_VoxelsInsideGrid ==
    fn = "returned" =>
        \A i \in 1..Len(result) : \A j \in 1..Len(result[i].Coordinates) :
            /\ InGrid(result[i].Coordinates[j])
            /\ InGrid(ToVoxel(result[i].Coordinates_mm[j])) =>
                 result[i].Coordinates[j] = ToVoxel(result[i].Coordinates_mm[j])

\* some coordinate of the table falls outside the grid
SomeOutside(exp_info) ==
    \E i \in 1..Len(exp_info) : \E j \in 1..Len(exp_info[i].Coordinates_mm) :
        ~InGrid(ToVoxel(exp_info[i].Coordinates_mm[j]))

\* C13: transform_coordinates_to_voxel_space returns the table in every
\* case and has printed the warning exactly when a coordinate fell outside
\* the grid.
C13_WarningWhenOutside ==
    fn = "returned" =>
        /\ Len(result) = Len(args.exp_info)
        /\ IF SomeOutside(args.exp_info)
           THEN stdout = <<"WARNING: Coordinate detected outside of Brain boundaries!">>
           ELSE stdout = <<>>

\* the table is in one of the two layouts: the article name on every
\* line, or on the first line of each experiment (so on the first row)
InLayout(exp_info) == exp_info[1].Articles # NaN

FirstLayout(exp_info) == \A k \in 1..Len(exp_info) : exp_info[k].Articles # NaN

\* the number of experiments of a table: of names in the first layout, of
\* first lines in the second
ExperimentCount(exp_info) ==
    IF FirstLayout(exp_info)
    THEN Cardinality({exp_info[k].Articles : k \in 1..Len(exp_info)})
    ELSE Cardinality({k \in 1..Len(exp_info) : exp_info[k].Articles # NaN})

RECURSIVE SumFoci(_)
SumFoci(rows) == IF rows = <<>> THEN 0 ELSE Head(rows).NumberOfFoci + SumFoci(Tail(rows))

\* C14: for a table in one of the two layouts concat_coordinates returns one
\* row per experiment, NumberOfFoci being the number of its coordinate
\* triplets; every input row is in exactly one experiment, under the article
\* name that applies to it, and the NumberOfFoci sum to the number of rows.
C14_FocusCount ==
    (fn # "call" /\ InLayout(args.exp_info)) =>
        /\ fn = "returned"
        /\ Len(result) = ExperimentCount(args.exp_info)
        /\ \A i \in 1..Len(result) :
             /\ result[i].NumberOfFoci = Len(result[i].Coordinates_mm)
             /\ result[i].NumberOfFoci >= 1
             /\ \A j \in 1..Len(result[i].Coordinates_mm) :
                  LET k == result[i].Coordinates_mm[j]
                      named == {q \in 1..k : args.exp_info[q].Articles # NaN}
                      first == CHOOSE q \in named : \A q2 \in named : q2 <= q
                  IN  args.exp_info[first].Articles = result[i].Articles
        /\ \A k \in 1..Len(args.exp_info) :
             Cardinality({<<i, j>> \in (1..Len(result)) \X (1..MaxSheetRows + 1) :
                            /\ j <= Len(result[i].Coordinates_mm)
                            /\ result[i].Coordinates_mm[j] = k}) = 1
        /\ SumFoci(result) = Len(args.exp_info)

\* a table of the second layout with two experiments of two rows each
C14_Witness ==
    /\ fn = "returned"
    /\ Len(args.exp_info) = 4
    /\ args.exp_info[2].Articles = NaN /\ args.exp_info[3].Articles # NaN
    /\ args.exp_info[4].Articles = NaN
    /\ Len(result) = 2
    /\ result[1].NumberOfFoci = 2 /\ result[2].NumberOfFoci = 2

\* main_effect has just returned for the name in meta
MainEffectReturned ==
    rowlog # <<>> /\ rowlog[Len(rowlog)] = <<"main_effect_done", meta>>

\* C15: with cutoff_predict_enabled main_effect takes its three thresholds
\* from predict_cutoff: it runs no Monte Carlo iteration, loads no Monte
\* Carlo null and leaves no Monte Carlo null file; with or without the
\* prediction a call that returns has written the thresholded maps.
C15_PredictedThresholds ==
    /\ params.cutoff_predict_enabled =>
         /\ pc \notin {"me_mc", "me_mc_dump", "me_pct"}
         /\ "montecarlo" \notin loaded
         /\ \A m \in Names : ~Exists(fs, MonteCarloPath(m))
         /\ DOMAIN stored = {}
         /\ pc = "me_infer" =>
              /\ thresholds = predict_cutoff
              /\ nulls = <<>>
              /\ mc_next = 1 /\ mc_running = {} /\ mc_res = <<>>
    /\ MainEffectReturned =>
         /\ Exists(fs, VfwePath(meta))
         /\ Exists(fs, CfwePath(meta))
         /\ params.tfce_enabled => Exists(fs, Tfce05Path(meta))

\* a main_effect call with the prediction has returned, its maps written
C15_Witness ==
    /\ params.cutoff_predict_enabled
    /\ MainEffectReturned
    /\ Exists(fs, CfwePath(meta))

\* 226, 236, 246: the three reports of a significant effect, for maps whose
\* maxima (times 20) are MaxAle, MaxCluster and MaxTfce
MaxAle == 30
MaxCluster == 30
MaxTfce == 30
Verdicts(th) == <<MaxAle > th[1], MaxCluster > th[2], MaxTfce > th[3]>>

\* the thresholds of the null stored for name m
StoredThresholds(m) ==
    <<Percentile95(stored[m][1]), Percentile95(stored[m][2]),
      Percentile95(stored[m][3])>>

\* C16: the null a main_effect call has dumped for a name is never replaced,
\* and every call that reaches the inference without the prediction, the
\* one that simulated the null and each later one that loads it, has the
\* 95th percentiles of that null as its three thresholds, so the same
\* verdicts.
C16_SameThresholds ==
    /\ [](( pc = "me_infer" /\ ~params.cutoff_predict_enabled ) =>
            /\ meta \in DOMAIN stored
            /\ thresholds = StoredThresholds(meta)
            /\ Verdicts(thresholds) = Verdicts(StoredThresholds(meta)))
    /\ [][\A m \in DOMAIN stored :
            m \in DOMAIN stored' /\ stored'[m] = stored[m]]_vars

\* a later call has loaded the stored null and has its thresholds; the
\* stored vectors differ from one another
C16_Witness ==
    /\ Running /\ pc = "me_infer"
    /\ "montecarlo" \in loaded
    /\ meta \in DOMAIN stored
    /\ thresholds = StoredThresholds(meta)
    /\ thresholds[1] # thresholds[2]

\* the list holds n subsets of size_n indices of 0..total_n-1, no two equal
UniqueSubsamples(samples, total_n, size_n, n) ==
    /\ Len(samples) = n
    /\ \A i \in 1..Len(samples) :
         /\ samples[i] \subseteq 0..(total_n - 1)
         /\ Cardinality(samples[i]) = size_n
    /\ \A i, j \in 1..Len(samples) : i # j => samples[i] # samples[j]

\* C(total_n, size_n)
Choose(total_n, size_n) == Cardinality(Subsets(total_n, size_n))

\* C17, as stated: the call made by probabilistic_ale returns exactly
\* sample_n subsets of target_n distinct indices of 0..total_n-1, no two of
\* them equal.
C17_ExactlySampleN ==
    fn # "call" =>
        /\ fn = "returned"
        /\ UniqueSubsamples(result, args.exp_df_rows, args.target_n, args.sample_n)

\* C17, amended: when there are at least sample_n different subsets of
\* target_n out of total_n experiments the call returns exactly sample_n of
\* them, no two equal; when there are fewer it fails or returns fewer than
\* sample_n subsets, still of target_n indices of 0..total_n-1 and different
\* from one another.
C17_SampleNIfPossible ==
    fn # "call" =>
        IF args.sample_n <= Choose(args.exp_df_rows, args.target_n)
        THEN /\ fn = "returned"
             /\ UniqueSubsamples(result, args.exp_df_rows, args.target_n,
                                 args.sample_n)
        ELSE \/ fn = "raised"
             \/ /\ fn = "returned"
                /\ Len(result) < args.sample_n
                /\ UniqueSubsamples(result, args.exp_df_rows, args.target_n,
                                    Len(result))

\* three different pairs out of four experiments
C17_Witness ==
    /\ fn = "returned"
    /\ args = [exp_df_rows |-> 4, target_n |-> 2, sample_n |-> 3]
    /\ Len(result) = 3
    /\ result[1] # result[2]

\* the z map has exactly one cluster
OneCluster(z) ==
    /\ \E i \in 1..Len(z) : z[i] = 1
    /\ \A i, j \in 1..Len(z) : (z[i] = 1 /\ z[j] = 1) => SameCluster(z, i, j)

\* the mass of the one cluster
MassOf(z) == Cardinality({i \in 1..Len(z) : z[i] = 1})

\* C18: for a z map with one cluster of mass M: if M > cfwe_threshold the
\* cFWE map is the z map and a significant cFWE effect is reported; if
\* M <= cfwe_threshold the cFWE map is all zero and nothing is reported.
C18_StrictClusterThreshold ==
    (fn = "returned" /\ OneCluster(args.z)) =>
        IF 20 * MassOf(args.z) > args.cfwe_threshold
        THEN /\ result = args.z
             /\ stdout = <<"cFWE: significant effect found.">>
        ELSE /\ \A i \in 1..Len(result) : result[i] = 0
             /\ stdout = <<>>

\* a cluster whose mass is exactly the threshold has been removed
C18_Witness ==
    /\ fn = "returned"
    /\ OneCluster(args.z)
    /\ MassOf(args.z) = 2
    /\ args.cfwe_threshold = 40
    /\ \A i \in 1..Len(result) : result[i] = 0

\* the sheet rows (counted from 1 after the header) that hold exactly one
\* or two entries
MalformedRows(rows) == SelectSeq([k \in 1..Len(rows) |-> k],
                                 LAMBDA k : rows[k] \in {1, 2})

\* C19: load_excel returns no table from a file that is missing, not an
\* Excel file or unreadable, nor from an experiment file with a row of
\* exactly one or two entries: it prints a message and the process exits,
\* the rows of one or two entries being listed, all of them and no other,
\* as index + 2; rows without any entry are dropped from the table returned
\* and are no error.
C19_NoTableFromBadFile ==
    fn # "call" =>
        /\ args.kind # "sheet" =>
             fn = "exited" /\ result = <<>> /\ stdout # <<>>
        /\ (args.kind = "sheet" /\ args.type = "experiment"
              /\ MalformedRows(args.rows) # <<>>) =>
             /\ fn = "exited" /\ result = <<>>
             /\ stdout[2] = [k \in 1..Len(MalformedRows(args.rows)) |->
                               MalformedRows(args.rows)[k] + 1]
        /\ fn = "returned" =>
             /\ args.kind = "sheet"
             /\ \A k \in 1..Len(result) : result[k].notna # 0
             /\ {result[k].index : k \in 1..Len(result)}
                  = {k - 1 : k \in {q \in 1..Len(args.rows) : args.rows[q] # 0}}
        /\ (args.kind = "sheet" /\ \A k \in 1..Len(args.rows) : args.rows[k] \notin {1, 2}) =>
             fn # "exited"

\* an experiment sheet with an empty row before a row of two entries: the
\* row is reported under its number in the spreadsheet
C19_Witness ==
    /\ fn = "exited"
    /\ args.kind = "sheet" /\ args.type = "experiment"
    /\ Len(args.rows) = 3
    /\ args.rows[1] = 6 /\ args.rows[2] = 0 /\ args.rows[3] = 2
    /\ stdout[2] = <<4>>

\* the runner a type code stands for
RunnerFor(code) ==
    CASE code = <<>> -> "continue"
      [] code = <<"M">> -> "run_main_effect"
      [] code # <<>> /\ code[1] = "P" -> "run_probabilistic_ale"
      [] code = <<"C">> -> "run_contrast_analysis"
      [] code # <<>> /\ code[1] = "B" -> "run_balanced_contrast"
      [] code = ClusterCode -> "run_ma_clustering"
      [] OTHER -> "none"

\* C20: the rows handled so far are the first rows of the table, in the
\* table's order, each handled once and by the one runner of its type code:
\* 'M' main effect, 'P...' probabilistic ALE, 'C' contrast, 'B...' balanced
\* contrast, 'Cluster' clustering and not contrast; a code that is no
\* string is skipped and any other string runs nothing; a run that ends
\* without an error has handled every row.
C20_DispatchByTypeCode ==
    /\ Len(rowlog) \in {row_idx, row_idx + 1}
    /\ Len(rowlog) = row_idx + 1 => status = "failed"
    /\ \A k \in 1..Len(rowlog) :
         /\ rowlog[k][1] = k - 1
         /\ rowlog[k][2] = RunnerFor(args.analysis_df[k].code)
    /\ status = "done" => Len(rowlog) = Len(args.analysis_df)

\* a 'Cluster' row after a 'C' row and a row without a type code
C20_Witness ==
    /\ status = "done"
    /\ Len(rowlog) = 3
    /\ args.analysis_df[1].code = <<"C">>
    /\ args.analysis_df[2].code = <<>>
    /\ args.analysis_df[3].code = ClusterCode
    /\ rowlog[3] = <<2, "run_ma_clustering">>

\* the loop is at the row a contrast or balanced contrast has just read as
\* its second meta-analysis
AtSecondRow ==
    /\ Running /\ pc = "loop"
    /\ rowlog # <<>>
    /\ rowlog[Len(rowlog)][1] \in {"contrast", "balanced_contrast"}
    /\ analysis_df # <<>>

\* C21: no contrast or balanced-contrast row is the last row of the table
\* (the read of the row after it never fails), and the row a contrast has
\* read as its second meta-analysis is passed over by the loop: no runner
\* is entered for it.
C21_SecondRowNotDispatched ==
    /\ [](error # "IndexError")
    /\ [][AtSecondRow =>
            /\ pc' = "loop"
            /\ rowlog' = <<RowEntry(Head(analysis_df))>>]_vars

\* the experiments (index labels) that carry the tag
Carrying(exp_info, tag) ==
    {k - 1 : k \in {q \in 1..Len(exp_info) :
                      \E j \in 1..Len(exp_info[q].Tags) : exp_info[q].Tags[j] = tag}}

\* the sum of Subjects over a set of experiments
RECURSIVE SubjectsOf(_, _)
SubjectsOf(exp_info, S) ==
    IF S = {} THEN 0
    ELSE LET k == CHOOSE q \in S : TRUE
         IN  exp_info[k + 1].Subjects + SubjectsOf(exp_info, S \ {k})

\* C22: in the table create_tasks_table returns, every task row has
\* Num_Exp = number of experiments in its ExpIndex = number of experiments
\* carrying the tag, and TotalSubjects the sum of Subjects over exactly
\* those; the 'all' row lists every experiment; the rows are in
\* non-increasing order of Num_Exp.
C22_TaskRowsConsistent ==
    fn = "returned" =>
        /\ \A i \in 1..Len(result) :
             LET row == result[i]
                 listed == {row.ExpIndex[j] : j \in 1..Len(row.ExpIndex)}
             IN  /\ Cardinality(listed) = Len(row.ExpIndex)
                 /\ row.Num_Exp = Len(row.ExpIndex)
                 /\ row.TotalSubjects = SubjectsOf(args.exp_info, listed)
                 /\ IF row.Name = "all"
                    THEN listed = 0..(Len(args.exp_info) - 1)
                    ELSE listed = Carrying(args.exp_info, row.Name)
        /\ \E i \in 1..Len(result) : result[i].Name = "all"
        /\ \A t \in TagSet :
             Carrying(args.exp_info, t) # {} =>
                 \E i \in 1..Len(result) : result[i].Name = t
        /\ \A i \in 1..(Len(result) - 1) :
             result[i].Num_Exp >= result[i + 1].Num_Exp

\* C23: the subsample size determine_target_n returns is at least 1 and at
\* most the number of experiments of the smaller pool, whether it is read
\* from the type code or derived from the pool sizes.
C23_TargetNUsable ==
    fn = "returned" =>
        /\ result[1] >= 1
        /\ result[1] <= Min2(args.n1, args.n2)

\* main_effect is about to take the ALE volume and the histogram null, and a
\* histogram null written in full for the name is on disk
HistogramOnDisk ==
    /\ Running /\ pc = "me_ale"
    /\ Exists(fs, HistPath(meta))
    /\ fs[HistPath(meta)].complete

\* main_effect is about to threshold, and the thresholded maps for the name
\* are on disk
MapsOnDisk ==
    /\ Running /\ pc = "me_infer"
    /\ Exists(fs, VfwePath(meta))
    /\ Exists(fs, CfwePath(meta))

\* C24: a main_effect call that finds the histogram null an earlier call
\* wrote for the name loads it, together with the ALE volume, and writes
\* neither again; a call that finds the thresholded maps on disk passes the
\* test that lets it skip the thresholding.
C24_IntermediatesReused ==
    [][/\ HistogramOnDisk =>
            /\ pc' = "me_z"
            /\ {"ale", "histogram"} \subseteq loaded'
            /\ fs' = fs
       /\ MapsOnDisk => Exists(fs, InferenceCheckPath(meta))]_vars

====
